---- MODULE Spec2Model ----
(***************************************************************************)
(* Model of the FAS hybrid search backend (src/backend/main.py): the       *)
(* facet filter with its statute-citation matcher, lexical and vector      *)
(* matching, score fusion, the field reranker, the facet hierarchy         *)
(* builders and the request handlers around them.                          *)
(*                                                                         *)
(* Text is modelled as a sequence of one-character strings.  Cyrillic      *)
(* letters of the citation syntax are transliterated:                      *)
(*     "p" = п (пункт, sub-point)     "c" = ч (часть, part)                *)
(*     "s","t" = ст (статья, statute)                                      *)
(* None and the empty string are both falsy in every test the code makes   *)
(* on a case field, so an absent text field is the empty sequence.         *)
(***************************************************************************)
EXTENDS Integers, Sequences, FiniteSets, TLC

VARIABLES
    cases,                \* main.cases: the loaded case list, or NotLoaded
    embeddings_fas_args,  \* main.embeddings_fas_args: primary vector table
    embeddings_violation, \* main.embeddings_violation: rerank vector table
    embeddings_ad_desc,   \* main.embeddings_ad_desc: rerank vector table
    use_gemini,           \* main.use_gemini: embedding backend active
    pc,                   \* position of the process / of the call under way
    req,                  \* the request or call arguments being handled
    resp,                 \* what the handler or function returned
    hist                  \* history: values at load, earlier embedding failure

vars == <<cases, embeddings_fas_args, embeddings_violation, embeddings_ad_desc,
          use_gemini, pc, req, resp, hist>>

NotLoaded == [loaded |-> FALSE]
\* a loaded case list or vector table
CaseList(list) == [loaded |-> TRUE, list |-> list]
Table(rows) == [loaded |-> TRUE, rows |-> rows]
NoValue == [kind |-> "none"]

----------------------------------------------------------------------------
(* Generic helpers *)

Min(S) == CHOOSE x \in S : \A y \in S : x <= y
Max(S) == CHOOSE x \in S : \A y \in S : x >= y

Range(f) == {f[i] : i \in DOMAIN f}

RECURSIVE SumSeq(_)
SumSeq(s) == IF s = <<>> THEN 0 ELSE Head(s) + SumSeq(Tail(s))

RECURSIVE FilterSeq(_, _)
\* the subsequence of s whose positions are in keep
FilterSeq(s, keep) ==
    IF s = <<>> THEN <<>>
    ELSE LET n == Len(s)
             front == FilterSeq(SubSeq(s, 1, n - 1), keep)
         IN IF n \in keep THEN Append(front, s[n]) ELSE front

----------------------------------------------------------------------------
(* Python str operations on character sequences *)

DigitChars == {"0", "1", "2", "3", "4", "5", "6", "7", "8", "9"}
SpaceChars == {" "}

IsDigit(ch) == ch \in DigitChars
IsSpace(ch) == ch \in SpaceChars

\* str.replace(old, new) for a one-character old
ReplaceChar(s, old, new) == [i \in 1..Len(s) |-> IF s[i] = old THEN new ELSE s[i]]

RECURSIVE CollapseDoubleSpace(_)
\* str.replace('  ', ' '): one left-to-right pass over non-overlapping pairs
CollapseDoubleSpace(s) ==
    IF Len(s) < 2 THEN s
    ELSE IF s[1] = " " /\ s[2] = " "
         THEN <<" ">> \o CollapseDoubleSpace(SubSeq(s, 3, Len(s)))
         ELSE <<s[1]>> \o CollapseDoubleSpace(Tail(s))

\* str.strip()
Strip(s) ==
    LET keep == {i \in 1..Len(s) : ~IsSpace(s[i])}
    IN IF keep = {} THEN <<>> ELSE SubSeq(s, Min(keep), Max(keep))

\* str.lower(): the letters of the model are lower case but for these
Lower(s) ==
    [i \in 1..Len(s) |->
        CASE s[i] = "P" -> "p" [] s[i] = "C" -> "c" [] s[i] = "S" -> "s"
          [] s[i] = "T" -> "t" [] s[i] = "A" -> "a" [] s[i] = "B" -> "b"
          [] OTHER -> s[i]]

\* first index >= i of s that holds no whitespace (Len(s)+1 when none)
SkipSpaces(s, i) ==
    LET stop == {j \in i..Len(s) : ~IsSpace(s[j])}
    IN IF stop = {} THEN Len(s) + 1 ELSE Min(stop)

\* first index >= i of s that holds no digit (Len(s)+1 when none)
SkipDigits(s, i) ==
    LET stop == {j \in i..Len(s) : ~IsDigit(s[j])}
    IN IF stop = {} THEN Len(s) + 1 ELSE Min(stop)

\* s holds lit at index i
HasAt(s, i, lit) ==
    /\ i >= 1
    /\ i + Len(lit) - 1 <= Len(s)
    /\ \A k \in 1..Len(lit) : s[i + k - 1] = lit[k]

\* `sub in s` of Python
Contains(s, sub) == \E i \in 1..(Len(s) - Len(sub) + 1) : HasAt(s, i, sub)

----------------------------------------------------------------------------
(* Regular expressions of the statute matcher, as the re module runs them:
   leftmost match, greedy \s* and \d+ (giving characters back never lets
   one of these patterns match where the greedy attempt fails). *)

NoMatch == [ok |-> FALSE]

\* letter \s* (\d+) at index i: the captured digits and the index after them
NumberedAt(s, i, letter) ==
    IF ~HasAt(s, i, letter) THEN NoMatch
    ELSE LET d == SkipSpaces(s, i + Len(letter))
             e == SkipDigits(s, d)
         IN IF e > d THEN [ok |-> TRUE, num |-> SubSeq(s, d, e - 1), next |-> e]
            ELSE NoMatch

\* ст\s*(\d+) anchored at index i
StAt(s, i) == NumberedAt(s, i, <<"s", "t">>)

\* ч\s*(\d+)\s*ст\s*(\d+) anchored at index i
ChStAt(s, i) ==
    LET c == NumberedAt(s, i, <<"c">>)
    IN IF ~c.ok THEN NoMatch
       ELSE LET st == StAt(s, SkipSpaces(s, c.next))
            IN IF st.ok THEN [ok |-> TRUE, ch |-> c.num, st |-> st.num, next |-> st.next]
               ELSE NoMatch

\* п\s*(\d+)\s*ч\s*(\d+)\s*ст\s*(\d+) anchored at index i
PChStAt(s, i) ==
    LET p == NumberedAt(s, i, <<"p">>)
    IN IF ~p.ok THEN NoMatch
       ELSE LET cs == ChStAt(s, SkipSpaces(s, p.next))
            IN IF cs.ok THEN [ok |-> TRUE, p |-> p.num, ch |-> cs.ch, st |-> cs.st,
                              next |-> cs.next]
               ELSE NoMatch

\* re.search: the match at the leftmost index where the pattern matches
SearchSt(s) ==
    LET at == {i \in 1..Len(s) : StAt(s, i).ok}
    IN IF at = {} THEN NoMatch ELSE StAt(s, Min(at))

SearchChSt(s) ==
    LET at == {i \in 1..Len(s) : ChStAt(s, i).ok}
    IN IF at = {} THEN NoMatch ELSE ChStAt(s, Min(at))

SearchPChSt(s) ==
    LET at == {i \in 1..Len(s) : PChStAt(s, i).ok}
    IN IF at = {} THEN NoMatch ELSE PChStAt(s, Min(at))

\* art.lower().replace('.', ' ').replace('  ', ' ').strip()
NormalizeCitation(s) == Strip(CollapseDoubleSpace(ReplaceChar(Lower(s), ".", " ")))

\* The components apply_filters extracts from a citation string; <<>> is None.
ParseCitation(text) ==
    LET n == NormalizeCitation(text)
        pcs == SearchPChSt(n)
        cs == SearchChSt(n)
        st == SearchSt(n)
    IN IF pcs.ok THEN [p |-> pcs.p, ch |-> pcs.ch, st |-> pcs.st]
       ELSE IF cs.ok THEN [p |-> <<>>, ch |-> cs.ch, st |-> cs.st]
       ELSE IF st.ok THEN [p |-> <<>>, ch |-> <<>>, st |-> st.num]
       ELSE [p |-> <<>>, ch |-> <<>>, st |-> <<>>]

\* The match decision of apply_filters on the extracted components
ComponentsMatch(f, s) ==
    /\ f.st # <<>> /\ s.st # <<>>
    /\ f.st = s.st
    /\ IF f.ch # <<>>
       THEN /\ s.ch # <<>> /\ f.ch = s.ch
            /\ IF f.p # <<>> THEN s.p # <<>> /\ f.p = s.p ELSE TRUE
       ELSE TRUE

\* One (filter citation, stored citation) pair of apply_filters
CitationMatches(art, prov) == ComponentsMatch(ParseCitation(art), ParseCitation(prov))

----------------------------------------------------------------------------
(* The legal_provisions field and how apply_filters reads it.
   A field is [form |-> "none"], [form |-> "list", items |-> strings],
   [form |-> "str", text |-> string] or [form |-> "other", text |-> str(v)]. *)

Quote == "\""

RECURSIVE JsonItems(_, _, _)
\* the elements of a JSON array of strings from index i on (after "[" or ",")
JsonItems(s, i, acc) ==
    LET a == SkipSpaces(s, i)
    IN IF a > Len(s) THEN NoMatch
       ELSE IF s[a] = "]"
            THEN IF acc = <<>> /\ a = Len(s) THEN [ok |-> TRUE, items |-> acc] ELSE NoMatch
       ELSE IF s[a] # Quote THEN NoMatch
       ELSE LET close == {j \in (a + 1)..Len(s) : s[j] = Quote}
            IN IF close = {} THEN NoMatch
               ELSE LET j == Min(close)
                        item == SubSeq(s, a + 1, j - 1)
                        k == SkipSpaces(s, j + 1)
                    IN IF k > Len(s) THEN NoMatch
                       ELSE IF s[k] = "," THEN JsonItems(s, k + 1, Append(acc, item))
                       ELSE IF s[k] = "]" /\ k = Len(s)
                            THEN [ok |-> TRUE, items |-> Append(acc, item)]
                       ELSE NoMatch

\* json.loads on a text that is a JSON array of strings; any other text of the
\* model's alphabet (it always holds a letter outside a string) is not JSON.
JsonLoads(text) ==
    LET s == Strip(text)
    IN IF Len(s) >= 2 /\ s[1] = "[" THEN JsonItems(s, 2, <<>>) ELSE NoMatch

\* `not case.get('legal_provisions')`
FieldIsFalsy(field) ==
    \/ field.form = "none"
    \/ field.form = "list" /\ field.items = <<>>
    \/ field.form = "str" /\ field.text = <<>>

\* The list of citations apply_filters iterates for a truthy field
ProvisionsOf(field) ==
    IF field.form = "str"
    THEN LET parsed == JsonLoads(ReplaceChar(field.text, "'", Quote))
         IN IF parsed.ok THEN parsed.items ELSE <<field.text>>
    ELSE IF field.form = "list" THEN field.items
    ELSE <<field.text>>

\* The two nested loops of the statute filter: `found`
StatuteFound(articles, provisions) ==
    \E a \in 1..Len(articles) : \E p \in 1..Len(provisions) :
        CitationMatches(articles[a], provisions[p])

----------------------------------------------------------------------------
(* Year, region and industry tests of apply_filters *)

\* int(text): optional sign then digits (the model's dates hold no
\* whitespace or underscore, which int() would also accept)
RECURSIVE DigitsValue(_)
DigitsValue(s) ==
    IF s = <<>> THEN 0
    ELSE 10 * DigitsValue(SubSeq(s, 1, Len(s) - 1))
         + (CHOOSE d \in 0..9 : ToString(d) = s[Len(s)])

AllDigits(s) == s # <<>> /\ \A i \in 1..Len(s) : IsDigit(s[i])

ParseInt(s) ==
    IF AllDigits(s) THEN [ok |-> TRUE, value |-> DigitsValue(s)]
    ELSE IF Len(s) >= 2 /\ s[1] \in {"-", "+"} /\ AllDigits(Tail(s))
         THEN [ok |-> TRUE,
               value |-> IF s[1] = "-" THEN 0 - DigitsValue(Tail(s)) ELSE DigitsValue(Tail(s))]
    ELSE NoMatch

\* text[:4]
Prefix(s, n) == SubSeq(s, 1, IF Len(s) < n THEN Len(s) ELSE n)

YearPrefixLen == 4

\* a year test that reads the whole date instead of its first four characters
YearPassesWholeDate(case, years) ==
    /\ case.document_date # <<>>
    /\ ParseInt(case.document_date).ok
    /\ ParseInt(case.document_date).value \in years

\* the year test: False when the date is falsy, int() raises or the year is
\* not in the filter
YearPasses(case, years) ==
    /\ case.document_date # <<>>
    /\ LET y == ParseInt(Prefix(case.document_date, YearPrefixLen))
       IN y.ok /\ y.value \in years

RegionPasses(case, regions) ==
    case.FAS_division # "" /\ case.FAS_division \in regions

\* industry_mapping.expand_filter_categories: a display category of the
\* taxonomy stands for its raw stored values, any other name for itself
IndustryTaxonomy == [Food |-> {"food/retail", "food/cafe"}, Finance |-> {"banks"}]

expand_filter_categories(selected) ==
    UNION {IF name \in DOMAIN IndustryTaxonomy THEN IndustryTaxonomy[name] ELSE {name}
           : name \in selected}

IndustryPasses(case, industries) ==
    case.defendant_industry # ""
    /\ case.defendant_industry \in expand_filter_categories(industries)

StatutePasses(case, articles) ==
    /\ ~FieldIsFalsy(case.legal_provisions)
    /\ StatuteFound(articles, ProvisionsOf(case.legal_provisions))

\* filters: [year: set of ints, region: set, industry: set, article: sequence];
\* a key that is absent or empty is falsy for filters.get(key)
NoFilters == [year |-> {}, region |-> {}, industry |-> {}, article |-> <<>>]

FiltersEmpty(filters) == filters = NoFilters

\* One iteration of the loop of apply_filters: TRUE when no `continue` is taken
CaseKept(case, filters) ==
    /\ filters.year # {} => YearPasses(case, filters.year)
    /\ filters.region # {} => RegionPasses(case, filters.region)
    /\ filters.industry # {} => IndustryPasses(case, filters.industry)
    /\ filters.article # <<>> => StatutePasses(case, filters.article)

RECURSIVE FilterLoop(_, _, _)
FilterLoop(candidates, filters, corpus) ==
    IF candidates = <<>> THEN <<>>
    ELSE LET c == Head(candidates)
             rest == FilterLoop(Tail(candidates), filters, corpus)
         IN IF CaseKept(corpus[c.idx], filters) THEN <<c>> \o rest ELSE rest

\* apply_filters(candidates, filters) over the global case list; candidates are
\* [idx, score] with idx counted from 1
apply_filters(candidates, filters, corpus) ==
    IF FiltersEmpty(filters) \/ corpus = <<>> THEN candidates
    ELSE FilterLoop(candidates, filters, corpus)

----------------------------------------------------------------------------
(* Calls of apply_filters on a fixture: the case list is set, the function is
   called once with the drawn arguments, its return value is kept. *)

ApplyFiltersCall ==
    /\ pc = "call"
    /\ req.kind = "apply_filters"
    /\ resp' = [kind |-> "apply_filters",
                result |-> apply_filters(req.candidates, req.filters, cases.list)]
    /\ pc' = "done"
    /\ UNCHANGED <<cases, embeddings_fas_args, embeddings_violation,
                   embeddings_ad_desc, use_gemini, req, hist>>

----------------------------------------------------------------------------
(* Inputs of the statute matcher: citations written from their components.
   A component is its digits; <<>> is an absent component. *)

StatuteNumbers == {<<"5">>, <<"7">>}
PartNumbers == {<<>>, <<"2">>, <<"3">>}
SubPointNumbers == {<<>>, <<"1">>, <<"2">>}

Citations == [p : SubPointNumbers, ch : PartNumbers, st : StatuteNumbers]

\* "п. 1 ч. 2 ст. 5", "ч. 2 ст. 5", "п. 1 ст. 5", "ст. 5"
FormatCitation(c) ==
    (IF c.p # <<>> THEN <<"p", ".", " ">> \o c.p \o <<" ">> ELSE <<>>)
    \o (IF c.ch # <<>> THEN <<"c", ".", " ">> \o c.ch \o <<" ">> ELSE <<>>)
    \o <<"s", "t", ".", " ">> \o c.st

FormatAll(cs) == [i \in 1..Len(cs) |-> FormatCitation(cs[i])]

RECURSIVE Join(_, _)
\* sep.join(strings)
Join(strings, sep) ==
    IF strings = <<>> THEN <<>>
    ELSE IF Len(strings) = 1 THEN strings[1]
    ELSE strings[1] \o sep \o Join(Tail(strings), sep)

\* the three stored forms of a list of citations: a list, the text of a
\* Python list as prepare_data.py writes it ("['a', 'b']"), a plain text
FieldForms == {"list", "repr", "plain"}

MakeField(form, cs) ==
    CASE form = "list" -> [form |-> "list", items |-> FormatAll(cs)]
      [] form = "repr" ->
            [form |-> "str",
             text |-> <<"[">>
                      \o Join([i \in 1..Len(cs) |-> <<"'">> \o FormatCitation(cs[i]) \o <<"'">>],
                              <<",", " ">>)
                      \o <<"]">>]
      [] form = "plain" -> [form |-> "str", text |-> Join(FormatAll(cs), <<",", " ">>)]

\* citations that can stand beside another one in a field or a filter
PairedCitations ==
    {c \in Citations : c.p = <<>> /\ c.ch \in {<<>>, <<"2">>}}
    \cup {[p |-> <<"1">>, ch |-> <<"2">>, st |-> <<"5">>]}

MaxCitations == 2

RECURSIVE SeqsOfLen(_, _)
SeqsOfLen(S, n) ==
    IF n = 0 THEN {<<>>}
    ELSE {Append(q, x) : q \in SeqsOfLen(S, n - 1), x \in S}

CitationLists ==
    SeqsOfLen(Citations, 1)
    \cup UNION {SeqsOfLen(PairedCitations, n) : n \in 2..MaxCitations}

BlankCase ==
    [document_date |-> <<>>, FAS_division |-> "", defendant_industry |-> "",
     legal_provisions |-> [form |-> "none"]]

InitStatute ==
    \E stored \in CitationLists, form \in FieldForms, wanted \in CitationLists :
        /\ cases = CaseList(<<[BlankCase EXCEPT !.legal_provisions = MakeField(form, stored)]>>)
        /\ req = [kind |-> "apply_filters",
                  candidates |-> <<[idx |-> 1, score |-> 1]>>,
                  filters |-> [NoFilters EXCEPT !.article = FormatAll(wanted)]]
        /\ hist = [stored |-> stored, form |-> form, wanted |-> wanted]
        /\ embeddings_fas_args = NotLoaded
        /\ embeddings_violation = NotLoaded
        /\ embeddings_ad_desc = NotLoaded
        /\ use_gemini = TRUE
        /\ pc = "call"
        /\ resp = NoValue

NextStatute == ApplyFiltersCall

SpecStatute == InitStatute /\ [][NextStatute]_vars

\* the call of the statute fixture has returned
StatuteCallDone == pc = "done" /\ resp.kind = "apply_filters" /\ "stored" \in DOMAIN hist

\* the one case of the fixture was kept
StatuteCaseKept == resp.result # <<>>

\* The matching rule of the specification on the components of two citations
RuleMatches(f, s) ==
    /\ f.st = s.st
    /\ (f.ch = <<>> \/ f.ch = s.ch)
    /\ (f.p = <<>> \/ f.p = s.p)

(* C1: a filter citation f matches a stored citation s iff they have the same
   statute number, and f has no part or s has the same part, and f has no
   sub-point or s has the same sub-point.  Stated on a filter of one citation
   against a field holding one citation. *)
C1_CitationRule ==
    (StatuteCallDone /\ Len(hist.wanted) = 1 /\ Len(hist.stored) = 1)
        => (StatuteCaseKept <=> RuleMatches(hist.wanted[1], hist.stored[1]))

(* C2: with a statute filter active, a case passes iff at least one filter
   citation matches at least one citation held in legal_provisions, whatever
   the position of the citation and whether the field is a list or a text
   holding several citations.  "Matches" is the decision of the matcher on the
   two citation texts. *)
C2_AnyMatchesAny ==
    StatuteCallDone
        => (StatuteCaseKept <=>
               \E f \in 1..Len(hist.wanted) : \E s \in 1..Len(hist.stored) :
                   CitationMatches(FormatCitation(hist.wanted[f]),
                                   FormatCitation(hist.stored[s])))

----------------------------------------------------------------------------
(* Calls of apply_filters with several candidates and every filter category *)

St5 == [p |-> <<>>, ch |-> <<>>, st |-> <<"5">>]
Ch2St7 == [p |-> <<>>, ch |-> <<"2">>, st |-> <<"7">>]
Ch3St5 == [p |-> <<>>, ch |-> <<"3">>, st |-> <<"5">>]

Date2023 == <<"2", "0", "2", "3", "-", "0", "1", "-", "1", "5">>
Date2021 == <<"2", "0", "2", "1", "-", "1", "2", "-", "0", "1">>
DateBad == <<"n", "/", "a">>

\* case records of the fixtures, with the citations their field was written from
FixtureCases ==
    { [date |-> Date2023, region |-> "r1", industry |-> "food/retail",
       form |-> "list", cites |-> <<St5>>],
      [date |-> Date2021, region |-> "r2", industry |-> "banks",
       form |-> "repr", cites |-> <<Ch3St5, Ch2St7>>],
      [date |-> Date2023, region |-> "r1", industry |-> "food/cafe",
       form |-> "plain", cites |-> <<St5, Ch2St7>>],
      [date |-> DateBad, region |-> "r1", industry |-> "Food",
       form |-> "plain", cites |-> <<Ch2St7>>],
      [date |-> <<>>, region |-> "", industry |-> "",
       form |-> "list", cites |-> <<>>] }

CaseOf(f) ==
    [document_date |-> f.date, FAS_division |-> f.region,
     defendant_industry |-> f.industry,
     legal_provisions |-> IF f.cites = <<>> THEN [form |-> "none"]
                          ELSE MakeField(f.form, f.cites)]

NumFilterCases == 2

\* candidate lists: every ordering of every set of case indices, the score
\* of a candidate told by its index
IsInjective(q) == \A i, j \in 1..Len(q) : i # j => q[i] # q[j]

CandidateLists(n) ==
    {[i \in 1..Len(q) |-> [idx |-> q[i], score |-> 10 * q[i] + 1]] :
        q \in {r \in UNION {SeqsOfLen(1..n, k) : k \in 0..n} : IsInjective(r)}}

FilterChoices ==
    [year : {{}, {2023}, {2021, 2023}},
     region : {{}, {"r1"}},
     industry : {{}, {"Food"}, {"banks", "other"}},
     wanted : {<<>>, <<St5>>, <<Ch2St7, Ch3St5>>}]

InitFilter ==
    \E fixture \in SeqsOfLen(FixtureCases, NumFilterCases),
       candidates \in CandidateLists(NumFilterCases),
       choice \in FilterChoices :
        /\ cases = CaseList([i \in 1..NumFilterCases |-> CaseOf(fixture[i])])
        /\ req = [kind |-> "apply_filters",
                  candidates |-> candidates,
                  filters |-> [year |-> choice.year, region |-> choice.region,
                               industry |-> choice.industry,
                               article |-> FormatAll(choice.wanted)]]
        /\ hist = [provisions |-> [i \in 1..NumFilterCases |-> fixture[i].cites],
                   wanted |-> choice.wanted]
        /\ embeddings_fas_args = NotLoaded
        /\ embeddings_violation = NotLoaded
        /\ embeddings_ad_desc = NotLoaded
        /\ use_gemini = TRUE
        /\ pc = "call"
        /\ resp = NoValue

NextFilter == ApplyFiltersCall

SpecFilter == InitFilter /\ [][NextFilter]_vars

FilterCallDone == pc = "done" /\ resp.kind = "apply_filters" /\ "provisions" \in DOMAIN hist

\* The statute category as the specification defines it: some filter citation
\* matches some citation the case holds, under the matching rule
PassesStatuteRule(i) ==
    \E f \in 1..Len(hist.wanted) : \E s \in 1..Len(hist.provisions[i]) :
        RuleMatches(hist.wanted[f], hist.provisions[i][s])

\* case i passes every active category
PassesEveryActive(i) ==
    /\ req.filters.year # {} => YearPasses(cases.list[i], req.filters.year)
    /\ req.filters.region # {} => RegionPasses(cases.list[i], req.filters.region)
    /\ req.filters.industry # {} => IndustryPasses(cases.list[i], req.filters.industry)
    /\ req.filters.article # <<>> => PassesStatuteRule(i)

(* C3: apply_filters returns exactly the candidates that pass every active
   category (year, region, industry, statute), in their input order and with
   unchanged (index, score) pairs. *)
C3_ExactlyThePassing ==
    FilterCallDone
        => resp.result =
             FilterSeq(req.candidates,
                       {k \in 1..Len(req.candidates) : PassesEveryActive(req.candidates[k].idx)})

----------------------------------------------------------------------------
(* Numbers.  A score is an integer count of 1/Unit: 1.0 is Unit.  Vectors
   have integer components and an integer length, so every similarity the
   model computes is exact. *)

Unit == 10000

Dot(u, v) == SumSeq([i \in 1..Len(u) |-> u[i] * v[i]])

\* np.linalg.norm, for a vector whose length is an integer
Norm(v) == LET sq == Dot(v, v) IN CHOOSE n \in 0..sq : n * n = sq

\* np.any(v)
AnyNonZero(v) == \E i \in 1..Len(v) : v[i] # 0

\* np.zeros(EMBEDDING_DIMENSION)
Dimension == 2
ZeroVector == [i \in 1..Dimension |-> 0]

----------------------------------------------------------------------------
(* list.sort(key=score, reverse=True) and sorted(..., reverse=True): stable,
   elements of equal score keep their order *)

\* an insertion that puts x in front of the elements of equal score
InsertDescBeforeEqual(sorted, x) ==
    LET n == Cardinality({i \in 1..Len(sorted) : sorted[i].score > x.score})
    IN SubSeq(sorted, 1, n) \o <<x>> \o SubSeq(sorted, n + 1, Len(sorted))

InsertDesc(sorted, x) ==
    LET n == Cardinality({i \in 1..Len(sorted) : sorted[i].score >= x.score})
    IN SubSeq(sorted, 1, n) \o <<x>> \o SubSeq(sorted, n + 1, Len(sorted))

RECURSIVE StableSortDesc(_)
StableSortDesc(s) ==
    IF s = <<>> THEN <<>>
    ELSE InsertDesc(StableSortDesc(SubSeq(s, 1, Len(s) - 1)), s[Len(s)])

\* s[:n]
Take(s, n) == SubSeq(s, 1, IF Len(s) < n THEN Len(s) ELSE n)

----------------------------------------------------------------------------
(* keyword_search *)

WordChars ==
    DigitChars \cup {"a", "b", "c", "d", "e", "k", "l", "n", "o", "p", "s", "t", "_"}

\* re.findall(r'\b\w+\b', text): the maximal runs of word characters
Tokens(s) ==
    {SubSeq(s, i, j) : <<i, j>> \in
        {ij \in (1..Len(s)) \X (1..Len(s)) :
            /\ ij[1] <= ij[2]
            /\ \A k \in ij[1]..ij[2] : s[k] \in WordChars
            /\ (ij[1] = 1 \/ s[ij[1] - 1] \notin WordChars)
            /\ (ij[2] = Len(s) \/ s[ij[2] + 1] \notin WordChars)}}

\* text.lower() raises AttributeError when a search field holds a value that
\* is truthy and not a string: a non-empty list has no method lower
KeywordSearchRaises(corpus) ==
    \E n \in 1..Len(corpus) :
        /\ corpus[n].legal_provisions.form = "list"
        /\ corpus[n].legal_provisions.items # <<>>

\* case.get(field, '') or '' for the five search fields, in the code's order
\* (an empty list gives ''; a non-empty one never gets past text.lower())
SearchTexts(case) ==
    <<case.violation_summary, case.ad_description, case.FAS_arguments,
      case.ad_content_cited,
      IF case.legal_provisions.form = "str" THEN case.legal_provisions.text ELSE <<>>>>

FullQueryBonus == 10
MinWordLen == 3

\* a field score that leaves the full-query bonus out
FieldScoreOfWordsOnly(text, query_lower, query_words) ==
    Cardinality({w \in query_words :
                    Len(w) > MinWordLen /\ Contains(Lower(text), w)})

\* the score one field adds
FieldScore(text, query_lower, query_words) ==
    LET text_lower == Lower(text)
    IN (IF Contains(text_lower, query_lower) THEN FullQueryBonus ELSE 0)
       + Cardinality({w \in query_words : Len(w) > MinWordLen /\ Contains(text_lower, w)})

CaseScore(case, query) ==
    LET query_lower == Lower(query)
        query_words == Tokens(query_lower)
        texts == SearchTexts(case)
    IN SumSeq([f \in 1..Len(texts) |-> FieldScore(texts[f], query_lower, query_words)])

RECURSIVE ScoredCases(_, _, _)
\* the list `scores` before it is sorted: the cases of score > 0 in corpus order
ScoredCases(corpus, query, n) ==
    IF n = 0 THEN <<>>
    ELSE LET before == ScoredCases(corpus, query, n - 1)
             sc == CaseScore(corpus[n], query)
         IN IF sc > 0 THEN Append(before, [idx |-> n, score |-> sc]) ELSE before

keyword_search(query, top_k, corpus) ==
    IF corpus = <<>> THEN <<>>
    ELSE Take(StableSortDesc(ScoredCases(corpus, query, Len(corpus))), top_k)

----------------------------------------------------------------------------
(* semantic_search *)

\* np.dot(embeddings_fas_args, query_norm)[i], in units
Similarity(row, query_embedding) ==
    (Dot(row, query_embedding) * Unit) \div Norm(query_embedding)

\* np.argsort(similarities)[::-1]: argsort's default sort is not stable, so
\* rows of equal similarity come in any order
DescendingOrders(sims) ==
    {q \in SeqsOfLen(1..Len(sims), Len(sims)) :
        /\ IsInjective(q)
        /\ \A i \in 1..(Len(q) - 1) : sims[q[i]] >= sims[q[i + 1]]}

\* a semantic search that keeps only rows of positive similarity
SemanticSearchAboveZero(query_embedding, top_k, table) ==
    IF table = NotLoaded \/ Norm(query_embedding) = 0 THEN {<<>>}
    ELSE LET sims == [i \in 1..Len(table.rows) |-> Similarity(table.rows[i], query_embedding)]
         IN {Take(SelectSeq([k \in 1..Len(q) |-> [idx |-> q[k], score |-> sims[q[k]]]],
                            LAMBDA entry : entry.score > 0), top_k) :
                q \in DescendingOrders(sims)}

\* every list semantic_search can return
semantic_search(query_embedding, top_k, table) ==
    IF table = NotLoaded THEN {<<>>}
    ELSE IF Norm(query_embedding) = 0 THEN {<<>>}
    ELSE LET sims == [i \in 1..Len(table.rows) |-> Similarity(table.rows[i], query_embedding)]
         IN {Take([k \in 1..Len(q) |-> [idx |-> q[k], score |-> sims[q[k]]]], top_k) :
                q \in DescendingOrders(sims)}

----------------------------------------------------------------------------
(* Score fusion in search *)

SemanticWeight == 7
LexicalWeight == 3
WeightScale == 10

\* one loop: combined_scores[idx] = combined_scores.get(idx, 0) + score * w.
\* The mapping is a list of [idx, score] in insertion order, as a dict keeps it.
\* a fusion whose later input replaces the score of an index already present
AccumulateOverwriting(combined, results, weighted) ==
    LET all == combined \o [i \in 1..Len(results) |->
                               [idx |-> results[i].idx, score |-> weighted[i]]]
        last == {i \in 1..Len(all) : \A j \in (i + 1)..Len(all) : all[j].idx # all[i].idx}
    IN FilterSeq(all, last)

RECURSIVE Accumulate(_, _, _)
Accumulate(combined, results, weighted) ==
    IF results = <<>> THEN combined
    ELSE LET r == Head(results)
             at == {i \in 1..Len(combined) : combined[i].idx = r.idx}
             next == IF at = {}
                     THEN Append(combined, [idx |-> r.idx, score |-> weighted[1]])
                     ELSE [combined EXCEPT ![Min(at)].score = @ + weighted[1]]
         IN Accumulate(next, Tail(results), Tail(weighted))

SemanticShare(results) ==
    [i \in 1..Len(results) |-> (results[i].score * SemanticWeight) \div WeightScale]

LexicalShare(results) ==
    [i \in 1..Len(results) |-> (results[i].score * Unit * LexicalWeight) \div WeightScale]

CombinedScores(semantic_results, keyword_results) ==
    Accumulate(Accumulate(<<>>, semantic_results, SemanticShare(semantic_results)),
               keyword_results, LexicalShare(keyword_results))

\* Candidate pool sizes.  The code's 100 and 50 are scaled to the size of the
\* model's corpus: both pools are smaller than the corpus.
SEARCH_TOP_CANDIDATES == 2
KEYWORD_TOP_K == 2

SortedCandidates(combined) == Take(StableSortDesc(combined), SEARCH_TOP_CANDIDATES)

----------------------------------------------------------------------------
(* normalize_score and rerank_with_field_embeddings *)

\* normalize_score(score, min_val, max_val) on finite scores, in units
normalize_score(score, min_val, max_val) ==
    IF score < min_val THEN 0
    ELSE IF score > max_val THEN Unit
    ELSE ((score - min_val) * Unit) \div (max_val - min_val)

\* FIELD_WEIGHTS, in tenths
ViolationWeight == 6
AdDescriptionWeight == 4

\* A float is [kind |-> "finite", value |-> units], or NaN, or an infinity.
Finite(v) == [kind |-> "finite", value |-> v]
NaN == [kind |-> "nan"]
PosInf == [kind |-> "inf"]
NegInf == [kind |-> "-inf"]

\* a rescaling that guards NaN and infinities but does not clamp
RescaleUnclamped(score, min_val, max_val) ==
    IF score.kind # "finite" THEN 0
    ELSE ((score.value - min_val) * Unit) \div (max_val - min_val)

\* normalize_score(score, min_val, max_val) on any float
NormalizeFloat(score, min_val, max_val) ==
    IF score.kind = "nan" \/ score.kind = "inf" \/ score.kind = "-inf" THEN 0
    ELSE normalize_score(score.value, min_val, max_val)

\* final_score of one candidate from its two field scores
FinalScore(viol, ad) ==
    LET weighted_sum == (ViolationWeight * viol + AdDescriptionWeight * ad) \div WeightScale
        max_weight_sum == ((ViolationWeight + AdDescriptionWeight) * Unit) \div WeightScale
    IN normalize_score(weighted_sum, 0, max_weight_sum)

\* round(x / y) to the nearest unit, for y > 0
RoundDiv(x, y) == (2 * x + y) \div (2 * y)

\* a field score that rescales a similarity of 0 for an all-zero stored vector
FieldSimilarityOfZeroRow(table, idx, query_embedding) ==
    IF table # NotLoaded /\ idx <= Len(table.rows)
    THEN LET row == table.rows[idx]
             r == IF AnyNonZero(row)
                  THEN (Dot(query_embedding, row) * Unit)
                           \div (Norm(query_embedding) * Norm(row))
                  ELSE 0
         IN normalize_score(r, 0 - Unit, Unit)
    ELSE 0

\* the score of one rerank field for case idx
FieldSimilarity(table, idx, query_embedding) ==
    IF table # NotLoaded /\ idx <= Len(table.rows)
    THEN LET row == table.rows[idx]
         IN IF AnyNonZero(row)
            THEN normalize_score((Dot(query_embedding, row) * Unit)
                                     \div (Norm(query_embedding) * Norm(row)),
                                 0 - Unit, Unit)
            ELSE 0
    ELSE 0

\* a keyword path that divides by the sum of the scores instead of the largest
KeywordRerankBySum(candidates) ==
    LET total == SumSeq([i \in 1..Len(candidates) |-> candidates[i].score])
        scored == [i \in 1..Len(candidates) |->
                      [index |-> candidates[i].idx,
                       score |-> RoundDiv(candidates[i].score * Unit, total),
                       field_scores |->
                           [keyword |-> RoundDiv(candidates[i].score * Unit, total)]]]
    IN StableSortDesc(scored)

\* the keyword path: scores divided by the largest one
KeywordRerank(candidates) ==
    IF candidates = <<>> THEN <<>>
    ELSE LET top == Max({candidates[i].score : i \in 1..Len(candidates)})
             max_keyword_score == IF top = 0 THEN Unit ELSE top
             sign == IF max_keyword_score > 0 THEN 1 ELSE 0 - 1
             \* sorted by the quotient: by the score, reversed under a negative divisor
             keyed == [i \in 1..Len(candidates) |->
                          [idx |-> candidates[i].idx,
                           score |-> sign * candidates[i].score,
                           raw |-> candidates[i].score]]
             ordered == StableSortDesc(keyed)
         IN [i \in 1..Len(ordered) |->
                LET normalized == RoundDiv(sign * ordered[i].raw * Unit,
                                           sign * max_keyword_score)
                IN [index |-> ordered[i].idx,
                    score |-> normalized,
                    field_scores |-> [keyword |-> normalized]]]

\* the path of a zero query vector without keyword scores
ZeroRerank(candidates) ==
    StableSortDesc([i \in 1..Len(candidates) |->
                       [index |-> candidates[i].idx, score |-> 0,
                        field_scores |-> [f \in {} |-> 0]]])

FieldRerank(candidates, query_embedding, violation, ad_desc) ==
    StableSortDesc(
        [i \in 1..Len(candidates) |->
            LET idx == candidates[i].idx
                viol == FieldSimilarity(violation, idx, query_embedding)
                ad == FieldSimilarity(ad_desc, idx, query_embedding)
            IN [index |-> idx,
                score |-> FinalScore(viol, ad),
                field_scores |-> [violation_summary |-> viol, ad_description |-> ad]]])

rerank_with_field_embeddings(candidates, query_embedding, use_keyword_scores, corpus, violation, ad_desc) ==
    IF corpus = <<>> THEN <<>>
    ELSE IF Norm(query_embedding) = 0 /\ use_keyword_scores THEN KeywordRerank(candidates)
    ELSE IF Norm(query_embedding) = 0 THEN ZeroRerank(candidates)
    ELSE FieldRerank(candidates, query_embedding, violation, ad_desc)

----------------------------------------------------------------------------
(* The data files: cases.json and the three vector tables, written together by
   prepare_data.py (every field a text or null, one vector row per case). *)

\* the vector with a on component k
Axis(k, a) == [i \in 1..Dimension |-> IF i = k THEN a ELSE 0]

Txt_bank == <<"b", "a", "n", "k">>
Txt_loan == <<"l", "o", "a", "n">>
Txt_bank_loan == Txt_bank \o <<" ">> \o Txt_loan

Documents ==
    { [date |-> Date2023, region |-> "r1", industry |-> "food/retail",
       form |-> "repr", cites |-> <<St5>>,
       violation_summary |-> Txt_bank_loan, ad_description |-> <<>>,
       FAS_arguments |-> Txt_bank, ad_content_cited |-> <<>>,
       fas |-> Axis(1, 1), viol |-> Axis(1, 1), ad |-> Axis(2, 1)],
      [date |-> Date2021, region |-> "r2", industry |-> "banks",
       form |-> "repr", cites |-> <<[p |-> <<"1">>, ch |-> <<"2">>, st |-> <<"5">>], St5>>,
       violation_summary |-> Txt_loan, ad_description |-> <<>>,
       FAS_arguments |-> <<>>, ad_content_cited |-> Txt_loan,
       fas |-> Axis(2, 1), viol |-> ZeroVector, ad |-> Axis(1, 0 - 1)],
      [date |-> <<>>, region |-> "", industry |-> "",
       form |-> "plain", cites |-> <<[p |-> <<>>, ch |-> <<"2">>, st |-> <<"5">>]>>,
       violation_summary |-> <<>>, ad_description |-> <<>>,
       FAS_arguments |-> <<>>, ad_content_cited |-> <<>>,
       fas |-> Axis(1, 2), viol |-> Axis(2, 2), ad |-> Axis(1, 1)] }

DocumentCase(d) ==
    [document_date |-> d.date, FAS_division |-> d.region,
     defendant_industry |-> d.industry,
     legal_provisions |-> MakeField(d.form, d.cites),
     violation_summary |-> d.violation_summary, ad_description |-> d.ad_description,
     FAS_arguments |-> d.FAS_arguments, ad_content_cited |-> d.ad_content_cited]

NumCases == 3

\* which data files exist when load_data runs, how many rows the
\* ad_description file lacks for the last cases, and whether cases.json holds
\* the citation lists as JSON arrays instead of their text
FilePresence ==
    { [fas |-> TRUE, viol |-> TRUE, ad |-> TRUE, cases |-> TRUE, ad_lacks |-> 0, arrays |-> FALSE],
      [fas |-> TRUE, viol |-> FALSE, ad |-> FALSE, cases |-> TRUE, ad_lacks |-> 0, arrays |-> FALSE],
      [fas |-> FALSE, viol |-> TRUE, ad |-> TRUE, cases |-> TRUE, ad_lacks |-> 0, arrays |-> FALSE],
      [fas |-> TRUE, viol |-> TRUE, ad |-> TRUE, cases |-> FALSE, ad_lacks |-> 0, arrays |-> FALSE],
      [fas |-> TRUE, viol |-> TRUE, ad |-> TRUE, cases |-> TRUE, ad_lacks |-> 1, arrays |-> FALSE],
      [fas |-> TRUE, viol |-> TRUE, ad |-> TRUE, cases |-> TRUE, ad_lacks |-> 0, arrays |-> TRUE] }

\* json.load of one case of cases.json
StoredCase(d, arrays) ==
    IF arrays /\ d.form = "repr"
    THEN [DocumentCase(d) EXCEPT !.legal_provisions = MakeField("list", d.cites)]
    ELSE DocumentCase(d)

Init ==
    /\ cases = NotLoaded
    /\ embeddings_fas_args = NotLoaded
    /\ embeddings_violation = NotLoaded
    /\ embeddings_ad_desc = NotLoaded
    /\ use_gemini = TRUE
    /\ pc = "start"
    /\ req = NoValue
    /\ resp = NoValue
    /\ hist = [atLoad |-> NoValue, failed |-> FALSE]

\* load_data at startup: configure_gemini may raise, each file may be missing
load_data ==
    /\ pc = "start"
    /\ \E docs \in [1..NumCases -> Documents], files \in FilePresence,
          configured \in BOOLEAN :
        LET gemini == IF configured THEN use_gemini ELSE FALSE
            fas == IF files.fas THEN Table([i \in 1..NumCases |-> docs[i].fas])
                   ELSE embeddings_fas_args
            viol == IF files.viol THEN Table([i \in 1..NumCases |-> docs[i].viol])
                    ELSE embeddings_violation
            ad == IF files.ad
                  THEN Table([i \in 1..(NumCases - files.ad_lacks) |-> docs[i].ad])
                  ELSE embeddings_ad_desc
            loaded == IF files.cases
                      THEN CaseList([i \in 1..NumCases |-> StoredCase(docs[i], files.arrays)])
                      ELSE cases
        IN /\ use_gemini' = gemini
           /\ embeddings_fas_args' = fas
           /\ embeddings_violation' = viol
           /\ embeddings_ad_desc' = ad
           /\ cases' = loaded
           /\ hist' = [hist EXCEPT !.atLoad =
                          [cases |-> loaded, embeddings_fas_args |-> fas,
                           embeddings_violation |-> viol, embeddings_ad_desc |-> ad,
                           use_gemini |-> gemini]]
    /\ pc' = "idle"
    /\ UNCHANGED <<req, resp>>

----------------------------------------------------------------------------
(* POST /api/search.  A request is received, handled by search in one step
   (the handler has no suspension point), and its response sent. *)

\* `not text or not text.strip()` of get_embedding
IsBlank(text) == Strip(text) = <<>>

EmbeddingFailure == [ok |-> FALSE]

\* what the embedding service would answer to a request
EmbeddingOutcomes == {EmbeddingFailure, [ok |-> TRUE, vector |-> Axis(1, 1)],
                      [ok |-> TRUE, vector |-> Axis(2, 2)]}

Queries == {Txt_bank, Txt_loan, <<" ">>}

MaxTopK == 2

\* "п. 1 ст. 5": a sub-point of a statute without a part
SubPoint1St5 == [p |-> <<"1">>, ch |-> <<>>, st |-> <<"5">>]

SearchFilters ==
    {NoFilters, [NoFilters EXCEPT !.year = {2023}],
     [NoFilters EXCEPT !.article = <<FormatCitation(SubPoint1St5)>>]}

ReceiveSearch ==
    /\ pc = "idle"
    /\ \E query \in Queries, top_k \in 1..MaxTopK, filters \in SearchFilters,
          embed \in EmbeddingOutcomes :
        req' = [kind |-> "search", query |-> query, top_k |-> top_k,
                filters |-> filters, embed |-> embed]
    /\ resp' = NoValue
    /\ pc' = "handling"
    /\ UNCHANGED <<cases, embeddings_fas_args, embeddings_violation,
                   embeddings_ad_desc, use_gemini, hist>>

\* get_embedding: zeros for a blank text without a call, the vector of the
\* service, or None when the call raises
get_embedding(text, outcome) ==
    IF IsBlank(text) THEN [ok |-> TRUE, vector |-> ZeroVector, called |-> FALSE]
    ELSE IF outcome.ok THEN [ok |-> TRUE, vector |-> outcome.vector, called |-> TRUE]
    ELSE [ok |-> FALSE, called |-> TRUE]

\* a flag that a request without a failure switches on again
GeminiAfterRetry(active, embedding) == embedding.ok

\* the value search assigns to use_gemini
GeminiAfter(active, embedding) == IF active /\ ~embedding.ok THEN FALSE ELSE active

\* a handler that goes on with a fixed non-zero vector when it has none
QueryEmbeddingDefault(active, embedding) ==
    IF active /\ embedding.ok THEN embedding.vector ELSE Axis(1, 1)

\* the query vector search goes on with
QueryEmbedding(active, embedding) ==
    IF active /\ embedding.ok THEN embedding.vector ELSE ZeroVector

\* a readiness test that asks for every vector table
AnyDataNotLoaded ==
    \/ embeddings_fas_args = NotLoaded
    \/ cases = NotLoaded
    \/ embeddings_violation = NotLoaded
    \/ embeddings_ad_desc = NotLoaded

\* `embeddings_fas_args is None or cases is None`
DataNotLoaded == embeddings_fas_args = NotLoaded \/ cases = NotLoaded

\* The handler's local variables are bound one after the other, each to the
\* one value the code assigns to it; semantic_results is any list that
\* semantic_search can return.
search ==
    /\ pc = "handling"
    /\ req.kind = "search"
    /\ IF DataNotLoaded
       THEN /\ resp' = [kind |-> "search", status |-> 503, called |-> FALSE,
                        after_failure |-> hist.failed]
            /\ UNCHANGED <<use_gemini, hist>>
       ELSE \E embedding \in {IF use_gemini THEN get_embedding(req.query, req.embed)
                              ELSE [ok |-> TRUE, vector |-> ZeroVector, called |-> FALSE]} :
            \E query_embedding \in {QueryEmbedding(use_gemini, embedding)} :
            \E semantic_results \in semantic_search(query_embedding, SEARCH_TOP_CANDIDATES,
                                                    embeddings_fas_args) :
            IF KeywordSearchRaises(cases.list)
            THEN /\ resp' = [kind |-> "search", status |-> 500,
                             called |-> embedding.called,
                             embedding_failed |-> ~embedding.ok,
                             after_failure |-> hist.failed]
                 /\ use_gemini' = GeminiAfter(use_gemini, embedding)
                 /\ hist' = [hist EXCEPT !.failed = @ \/ ~embedding.ok]
            ELSE
            \E keyword_results \in {keyword_search(req.query, KEYWORD_TOP_K, cases.list)} :
            \E combined_scores \in {CombinedScores(semantic_results, keyword_results)} :
            \E sorted_candidates \in {SortedCandidates(combined_scores)} :
            \E filtered_candidates \in
                   {IF ~FiltersEmpty(req.filters)
                    THEN apply_filters(sorted_candidates, req.filters, cases.list)
                    ELSE sorted_candidates} :
            \E use_keyword \in {Len(semantic_results) = 0 /\ Len(keyword_results) > 0} :
            \E reranked \in {rerank_with_field_embeddings(
                                 filtered_candidates, query_embedding, use_keyword,
                                 cases.list, embeddings_violation, embeddings_ad_desc)} :
               /\ resp' = [kind |-> "search", status |-> 200,
                           called |-> embedding.called,
                           embedding_failed |-> ~embedding.ok,
                           after_failure |-> hist.failed,
                           total_cases |-> Len(cases.list),
                           results |-> Take(reranked, req.top_k),
                           query_embedding |-> query_embedding,
                           semantic_results |-> semantic_results,
                           keyword_results |-> keyword_results,
                           combined_scores |-> combined_scores,
                           sorted_candidates |-> sorted_candidates,
                           filtered_candidates |-> filtered_candidates,
                           use_keyword |-> use_keyword]
               /\ use_gemini' = GeminiAfter(use_gemini, embedding)
               /\ hist' = [hist EXCEPT !.failed = @ \/ ~embedding.ok]
    /\ pc' = "responded"
    /\ UNCHANGED <<cases, embeddings_fas_args, embeddings_violation,
                   embeddings_ad_desc, req>>

\* the response is sent; what the request created is discarded
Respond ==
    /\ pc = "responded"
    /\ pc' = "idle"
    /\ req' = NoValue
    /\ resp' = NoValue
    /\ UNCHANGED <<cases, embeddings_fas_args, embeddings_violation,
                   embeddings_ad_desc, use_gemini, hist>>

----------------------------------------------------------------------------
(* GET /api/filters: the statute facet *)

\* ст\.\s*\d+ at index i of the lower-cased text: the index after the match
StDotEnd(low, i) ==
    LET m == NumberedAt(low, i, <<"s", "t", ".">>) IN IF m.ok THEN m.next ELSE 0

\* ч\.\s*\d+\s*ст\.\s*\d+ at index i
ChStDotEnd(low, i) ==
    LET c == NumberedAt(low, i, <<"c", ".">>)
    IN IF c.ok THEN StDotEnd(low, SkipSpaces(low, c.next)) ELSE 0

RECURSIVE FindCitations(_, _)
\* re.findall(r'ст\.\s*\d+|ч\.\s*\d+\s*ст\.\s*\d+', text, re.IGNORECASE) from
\* index i on: non-overlapping matches, the first alternative tried first
FindCitations(text, i) ==
    IF i > Len(text) THEN <<>>
    ELSE LET low == Lower(text)
             e == IF StDotEnd(low, i) > 0 THEN StDotEnd(low, i) ELSE ChStDotEnd(low, i)
         IN IF e > 0 THEN <<SubSeq(text, i, e - 1)>> \o FindCitations(text, e)
            ELSE FindCitations(text, i + 1)

\* re.match(r'^ст\.\s*(\d+)$', article, re.IGNORECASE): the number, or <<>>
MainMatch(article) ==
    LET m == NumberedAt(Lower(article), 1, <<"s", "t", ".">>)
    IN IF m.ok /\ m.next = Len(article) + 1 THEN m.num ELSE <<>>

\* re.match(r'^ч\.\s*(\d+)\s*ст\.\s*(\d+)$', article, re.IGNORECASE)
PartMatch(article) ==
    LET low == Lower(article)
        c == NumberedAt(low, 1, <<"c", ".">>)
    IN IF ~c.ok THEN NoMatch
       ELSE LET m == NumberedAt(low, SkipSpaces(low, c.next), <<"s", "t", ".">>)
            IN IF m.ok /\ m.next = Len(article) + 1
               THEN [ok |-> TRUE, part |-> c.num, article |-> m.num]
               ELSE NoMatch

\* f"ст. {article_num}" and f"ч. {part_num}"
MainKey(num) == <<"s", "t", ".", " ">> \o num
PartKey(num) == <<"c", ".", " ">> \o num

RECURSIVE SortByNumber(_)
\* sorted(keys, key=int of the number): the numbers in ascending order
SortByNumber(nums) ==
    IF nums = {} THEN <<>>
    ELSE LET least == CHOOSE n \in nums : \A m \in nums : DigitsValue(n) <= DigitsValue(m)
         IN <<least>> \o SortByNumber(nums \ {least})

\* article_counts.get(article, 0): how often the loop over `articles` met it
ArticleCount(articles, article) ==
    Cardinality({i \in 1..Len(articles) : articles[i] = article})

\* build_article_hierarchy over the texts in the order the loop visits them
build_article_hierarchy(articles) ==
    LET texts == {articles[i] : i \in 1..Len(articles)} \ {<<>>}
        mains == {MainMatch(a) : a \in {x \in texts : MainMatch(x) # <<>>}}
        parts == {PartMatch(a) : a \in {x \in texts : MainMatch(x) = <<>> /\ PartMatch(x).ok}}
        article_nums == mains \cup {m.article : m \in parts}
        \* article_map[main_key][part_key] = article_counts.get(article, 0)
        PartCount(num, part) ==
            LET from == {a \in texts : /\ MainMatch(a) = <<>>
                                       /\ PartMatch(a).ok
                                       /\ PartMatch(a).article = num
                                       /\ PartMatch(a).part = part}
            IN ArticleCount(articles, CHOOSE a \in from : TRUE)
        PartsOf(num) == SortByNumber({m.part : m \in {x \in parts : x.article = num}})
        ordered == SortByNumber(article_nums)
    IN [k \in 1..Len(ordered) |->
           LET num == ordered[k]
               parts_list == [j \in 1..Len(PartsOf(num)) |->
                                 [name |-> PartKey(PartsOf(num)[j]),
                                  count |-> PartCount(num, PartsOf(num)[j])]]
           IN [name |-> MainKey(num),
               count |-> ArticleCount(articles, MainKey(num))
                         + SumSeq([j \in 1..Len(parts_list) |-> parts_list[j].count]),
               parts |-> parts_list]]

RECURSIVE SetToSeq(_)
\* the elements of a set, each once, in the order a loop over it meets them
SetToSeq(S) ==
    IF S = {} THEN <<>> ELSE LET x == CHOOSE y \in S : TRUE IN <<x>> \o SetToSeq(S \ {x})

\* re.findall(pattern, legal) raises TypeError when the field holds a
\* non-empty list
FindallRaises(corpus) ==
    \E n \in 1..Len(corpus) :
        /\ corpus[n].legal_provisions.form = "list"
        /\ ~FieldIsFalsy(corpus[n].legal_provisions)

\* the citations get_filter_options reads in one case
CaseArticles(case) ==
    IF FieldIsFalsy(case.legal_provisions) THEN <<>>
    ELSE LET found == FindCitations(case.legal_provisions.text, 1)
         IN [i \in 1..Len(found) |-> Strip(found[i])]

\* The characters of the stored division names and of the two tables, scaled
\* to two districts.  "r1" is a division the translation table knows, "r2" a
\* division stored under the name of its region, in lower case.
Txt_ab_ufas == <<"A", "b", " ", "u", "f", "a", "s">>
Txt_ba_ufas == <<"B", "a", " ", "u", "f", "a", "s">>
Txt_ab_obl == <<"A", "b", " ", "o", "b", "l">>
Txt_ba_obl == <<"B", "a", " ", "o", "b", "l">>
Txt_ca_obl == <<"C", "a", " ", "o", "b", "l">>

DivisionText(division) ==
    CASE division = "r1" -> Txt_ab_ufas
      [] division = "r2" -> Lower(Txt_ba_obl)
      [] division = "r3" -> Txt_ca_obl
      [] OTHER -> <<>>

\* REGION_HIERARCHY, in the order of the dict
REGION_HIERARCHY ==
    << [name |-> "district 1", regions |-> <<Txt_ab_obl, Txt_ba_obl>>],
       [name |-> "district 2", regions |-> <<Txt_ca_obl>>] >>

\* UFAS_TO_REGION
UFAS_TO_REGION ==
    { [ufas |-> Txt_ab_ufas, region |-> Txt_ab_obl],
      [ufas |-> Txt_ba_ufas, region |-> Txt_ba_obl] }

\* region_to_ufas.get(region): the set holding the division name, or {}
region_to_ufas(region) == {m.ufas : m \in {x \in UFAS_TO_REGION : x.region = region}}

\* a region_counts that outlives the call: the counts of an earlier run are
\* still in it when the next run adds its own
RegionCountKept(db_regions, r) ==
    Cardinality({i \in 1..Len(db_regions) : db_regions[i] # <<>> /\ db_regions[i] = r})
        * (IF resp = NoValue THEN 1 ELSE 2)

\* region_counts.get(r, 0): how often the loop over db_regions met r
RegionCount(db_regions, r) ==
    Cardinality({i \in 1..Len(db_regions) : db_regions[i] # <<>> /\ db_regions[i] = r})

\* region.lower() in db_region.lower() or db_region.lower() in region.lower()
PartialMatch(region, db_region) ==
    \/ Contains(Lower(db_region), Lower(region))
    \/ Contains(Lower(region), Lower(db_region))

\* matched_ufas of one region: the division found by the table, then every
\* other division of db_regions that matches partially
MatchedUfas(db_regions, region) ==
    LET by_table == {u \in region_to_ufas(region) : RegionCount(db_regions, u) > 0}
        stored == {db_regions[i] : i \in 1..Len(db_regions)} \ {<<>>}
    IN by_table \cup {d \in stored \ by_table : PartialMatch(region, d)}

\* found_count of one region
FoundCount(db_regions, region) ==
    LET matched == SetToSeq(MatchedUfas(db_regions, region))
    IN SumSeq([k \in 1..Len(matched) |-> RegionCount(db_regions, matched[k])])

\* f"{region} ({found_count})".split(' (')[0]
CleanRegion(region) ==
    LET at == {i \in 1..Len(region) : HasAt(region, i, <<" ", "(">>)}
    IN IF at = {} THEN region ELSE SubSeq(region, 1, Min(at) - 1)

build_region_hierarchy(db_regions) ==
    LET Group(fo) ==
            LET valid == {k \in 1..Len(fo.regions) : FoundCount(db_regions, fo.regions[k]) > 0}
                kept == FilterSeq(fo.regions, valid)
            IN [name |-> fo.name,
                count |-> SumSeq([k \in 1..Len(kept) |-> FoundCount(db_regions, kept[k])]),
                regions |-> [k \in 1..Len(kept) |-> CleanRegion(kept[k])]]
        groups == [k \in 1..Len(REGION_HIERARCHY) |-> Group(REGION_HIERARCHY[k])]
    IN FilterSeq(groups, {k \in 1..Len(groups) : groups[k].regions # <<>>})

ReceiveFilters ==
    /\ pc = "idle"
    /\ req' = [kind |-> "filters"]
    /\ resp' = NoValue
    /\ pc' = "handling"
    /\ UNCHANGED <<cases, embeddings_fas_args, embeddings_violation,
                   embeddings_ad_desc, use_gemini, hist>>

\* industry_mapping.INDUSTRY_HIERARCHY: industry -> sphere -> raw stored values,
\* in the order of the dictionary; the spheres are the display categories of
\* IndustryTaxonomy
INDUSTRY_HIERARCHY ==
    <<[name |-> "Trade",
       spheres |-> <<[name |-> "Food", specs |-> <<"food/retail", "food/cafe">>]>>],
      [name |-> "Money",
       spheres |-> <<[name |-> "Finance", specs |-> <<"banks">>]>>]>>

\* industry_counts of get_filter_options, read as industry_counts.get(spec, 0)
industry_counts(list, spec) ==
    Cardinality({i \in 1..Len(list) :
                    list[i].defendant_industry # "" /\ list[i].defendant_industry = spec})

build_industry_hierarchy_from_mapping(list) ==
    LET Leaves(specs) ==
            LET found == {k \in 1..Len(specs) : industry_counts(list, specs[k]) > 0}
                kept == FilterSeq(specs, found)
            IN [k \in 1..Len(kept) |->
                   [name |-> kept[k], count |-> industry_counts(list, kept[k])]]
        Sphere(sphere) ==
            LET sub_sub_list == Leaves(sphere.specs)
            IN [name |-> sphere.name,
                count |-> SumSeq([k \in 1..Len(sub_sub_list) |-> sub_sub_list[k].count]),
                sub_industries |-> sub_sub_list]
        Industry(industry) ==
            LET all == [k \in 1..Len(industry.spheres) |-> Sphere(industry.spheres[k])]
                sub_list == FilterSeq(all, {k \in 1..Len(all) : all[k].count > 0})
            IN [name |-> industry.name,
                count |-> SumSeq([k \in 1..Len(sub_list) |-> sub_list[k].count]),
                sub_industries |-> sub_list]
        groups == [k \in 1..Len(INDUSTRY_HIERARCHY) |-> Industry(INDUSTRY_HIERARCHY[k])]
    IN FilterSeq(groups, {k \in 1..Len(groups) : groups[k].count > 0})

get_filter_options ==
    /\ pc = "handling"
    /\ req.kind = "filters"
    /\ IF cases = NotLoaded \/ cases.list = <<>>
       THEN resp' = [kind |-> "filters", status |-> 503]
       ELSE IF FindallRaises(cases.list)
       THEN resp' = [kind |-> "filters", status |-> 500]
       ELSE LET list == cases.list
                dated == {i \in 1..Len(list) :
                             /\ list[i].document_date # <<>>
                             /\ ParseInt(Prefix(list[i].document_date, YearPrefixLen)).ok}
                years == {ParseInt(Prefix(list[i].document_date, YearPrefixLen)).value
                             : i \in dated}
                regions == {list[i].FAS_division : i \in 1..Len(list)} \ {""}
                industries == {list[i].defendant_industry : i \in 1..Len(list)} \ {""}
                articles == UNION {Range(CaseArticles(list[i])) : i \in 1..Len(list)}
            IN resp' = [kind |-> "filters", status |-> 200,
                        years |-> years, regions |-> regions,
                        industries |-> industries, articles |-> articles,
                        industry_groups |-> build_industry_hierarchy_from_mapping(list),
                        region_groups |->
                            build_region_hierarchy(
                                SetToSeq({DivisionText(r) : r \in regions})),
                        article_groups |-> build_article_hierarchy(SetToSeq(articles))]
    /\ pc' = "responded"
    /\ UNCHANGED <<cases, embeddings_fas_args, embeddings_violation,
                   embeddings_ad_desc, use_gemini, req, hist>>

----------------------------------------------------------------------------
(* GET /api/health *)

ReceiveHealth ==
    /\ pc = "idle"
    /\ req' = [kind |-> "health"]
    /\ resp' = NoValue
    /\ pc' = "handling"
    /\ UNCHANGED <<cases, embeddings_fas_args, embeddings_violation,
                   embeddings_ad_desc, use_gemini, hist>>

health_check ==
    /\ pc = "handling"
    /\ req.kind = "health"
    /\ resp' = [kind |-> "health", status |-> 200,
                model_loaded |-> use_gemini,
                data_loaded |-> embeddings_fas_args # NotLoaded /\ cases # NotLoaded,
                total_cases |-> IF cases = NotLoaded THEN 0 ELSE Len(cases.list),
                embedding_dimension |-> Dimension,
                embedding_model |-> IF use_gemini THEN "gemini-embedding-001"
                                    ELSE "local-embeddings"]
    /\ pc' = "responded"
    /\ UNCHANGED <<cases, embeddings_fas_args, embeddings_violation,
                   embeddings_ad_desc, use_gemini, req, hist>>

Next ==
    \/ load_data
    \/ ReceiveSearch
    \/ search
    \/ ReceiveFilters
    \/ get_filter_options
    \/ ReceiveHealth
    \/ health_check
    \/ Respond

Spec == Init /\ [][Next]_vars

----------------------------------------------------------------------------
(* build_industry_hierarchy *)

RECURSIVE Split(_, _)
\* s.split(sep) for a one-character separator
Split(s, sep) ==
    LET at == {i \in 1..Len(s) : s[i] = sep}
    IN IF at = {} THEN <<s>>
       ELSE <<SubSeq(s, 1, Min(at) - 1)>> \o Split(SubSeq(s, Min(at) + 1, Len(s)), sep)

\* [s.strip() for s in industry.split('/')]
PathParts(industry) ==
    LET raw == Split(industry, "/") IN [i \in 1..Len(raw) |-> Strip(raw[i])]

\* the code points of the characters of the industry names, in their order
CodeRank(c) ==
    CASE c = " " -> 32 [] c = "/" -> 47 [] c = "A" -> 65 [] c = "B" -> 66 [] c = "C" -> 67

RECURSIVE StrLess(_, _)
\* a < b of two str values
StrLess(a, b) ==
    IF b = <<>> THEN FALSE
    ELSE IF a = <<>> THEN TRUE
    ELSE IF Head(a) # Head(b) THEN CodeRank(Head(a)) < CodeRank(Head(b))
    ELSE StrLess(Tail(a), Tail(b))

RECURSIVE SortedNames(_)
\* sorted(names)
SortedNames(names) ==
    IF names = {} THEN <<>>
    ELSE LET least == CHOOSE n \in names : \A m \in names : m = n \/ StrLess(n, m)
         IN <<least>> \o SortedNames(names \ {least})

\* industry_counts.get(key, 0)
IndustryCount(industries, key) ==
    Cardinality({i \in 1..Len(industries) : industries[i] # <<>> /\ industries[i] = key})

\* f"{main} / {sub_name}"
DirectKey(main, sub_name) == main \o <<" ", "/", " ">> \o sub_name

build_industry_hierarchy(industries) ==
    LET present == {i \in 1..Len(industries) : industries[i] # <<>>}
        parts == [i \in 1..Len(industries) |-> PathParts(industries[i])]
        mains == {parts[i][1] : i \in present}
        SubsOf(main) == {parts[i][2] : i \in {j \in present : /\ Len(parts[j]) >= 2
                                                                /\ parts[j][1] = main}}
        \* all_industries[main][sub][subsub]
        Leaves(main, sub) ==
            {parts[i][3] : i \in {j \in present : /\ Len(parts[j]) >= 3
                                                    /\ parts[j][1] = main
                                                    /\ parts[j][2] = sub
                                                    /\ parts[j][3] # <<>>}}
        LeafCount(main, sub, subsub) ==
            Cardinality({j \in present : /\ Len(parts[j]) >= 3
                                         /\ parts[j][1] = main
                                         /\ parts[j][2] = sub
                                         /\ parts[j][3] = subsub})
        SubNode(main, sub_name) ==
            LET names == SortedNames(Leaves(main, sub_name))
                sub_sub_list == [k \in 1..Len(names) |->
                                    [name |-> names[k],
                                     count |-> LeafCount(main, sub_name, names[k])]]
            IN [name |-> sub_name,
                count |-> SumSeq([k \in 1..Len(sub_sub_list) |-> sub_sub_list[k].count])
                          + IndustryCount(industries, DirectKey(main, sub_name)),
                sub_industries |-> sub_sub_list]
        MainNode(main) ==
            LET names == SortedNames(SubsOf(main))
                sub_list == [k \in 1..Len(names) |-> SubNode(main, names[k])]
            IN [name |-> main,
                count |-> SumSeq([k \in 1..Len(sub_list) |-> sub_list[k].count])
                          + IndustryCount(industries, main),
                sub_industries |-> sub_list]
        ordered == SortedNames(mains)
    IN [k \in 1..Len(ordered) |-> MainNode(ordered[k])]

BuildIndustryCall ==
    /\ pc = "call"
    /\ req.kind = "build_industry_hierarchy"
    /\ resp' = [kind |-> "build_industry_hierarchy",
                result |-> build_industry_hierarchy(req.industries)]
    /\ pc' = "done"
    /\ UNCHANGED <<cases, embeddings_fas_args, embeddings_violation,
                   embeddings_ad_desc, use_gemini, req, hist>>

\* raw defendant_industry values of one to three segments
IndustryPaths ==
    { <<"A">>, <<"B">>, <<"A", "/", "B">>, <<"A", " ", "/", " ", "B">>,
      <<"A", "/", "B", "/", "C">>, <<"A", " ", "/", " ", "B", " ", "/", " ", "C">> }

MaxIndustries == 4

InitIndustry ==
    \E n \in 1..MaxIndustries :
      \E industries \in SeqsOfLen(IndustryPaths, n) :
        /\ req = [kind |-> "build_industry_hierarchy", industries |-> industries]
        /\ resp = NoValue
        /\ pc = "call"
        /\ cases = NotLoaded
        /\ embeddings_fas_args = NotLoaded
        /\ embeddings_violation = NotLoaded
        /\ embeddings_ad_desc = NotLoaded
        /\ use_gemini = FALSE
        /\ hist = NoValue

NextIndustry == BuildIndustryCall

SpecIndustry == InitIndustry /\ [][NextIndustry]_vars

IndustryCallDone == pc = "done" /\ resp.kind = "build_industry_hierarchy"

\* the cases whose path has exactly these segments
CasesAt(industries, segments) ==
    Cardinality({i \in 1..Len(industries) : PathParts(industries[i]) = segments})

\* the nodes of a list that carry a name
Named(nodes, name) == {nodes[k] : k \in {j \in 1..Len(nodes) : nodes[j].name = name}}

\* C9: in the industry tree built from raw `/`-delimited paths of one to three
\* segments, a specialty counts the cases with that full path, a sub-industry
\* counts its specialties plus the cases ending at it, and an industry counts
\* its sub-industries plus the cases ending at it; so the values A, A, A/B,
\* A/B/C give A = 4, A/B = 2, A/B/C = 1.
C9_IndustryCounts ==
    IndustryCallDone =>
        LET industries == req.industries
            paths == {PathParts(industries[i]) : i \in 1..Len(industries)}
            tree == resp.result
        IN \A path \in paths :
             \E main \in Named(tree, path[1]) :
               /\ main.count = SumSeq([k \in 1..Len(main.sub_industries) |->
                                          main.sub_industries[k].count])
                               + CasesAt(industries, <<path[1]>>)
               /\ Len(path) >= 2 =>
                    \E sub \in Named(main.sub_industries, path[2]) :
                      /\ sub.count = SumSeq([k \in 1..Len(sub.sub_industries) |->
                                                sub.sub_industries[k].count])
                                     + CasesAt(industries, <<path[1], path[2]>>)
                      /\ Len(path) = 3 =>
                           \E leaf \in Named(sub.sub_industries, path[3]) :
                             leaf.count = CasesAt(industries, path)

----------------------------------------------------------------------------
(* Properties of the search handler *)

SearchAnswered == pc = "responded" /\ resp.kind = "search" /\ resp.status = 200

Indices(results) == {results[k].idx : k \in 1..Len(results)}

\* the score an index has in a result list, 0 when it is absent
ScoreIn(results, i) ==
    LET at == {k \in 1..Len(results) : results[k].idx = i}
    IN IF at = {} THEN 0 ELSE results[CHOOSE k \in at : TRUE].score

\* 0.7 x semantic + 0.3 x lexical of index i, times WeightScale, in units
TenfoldFused(i) ==
    SemanticWeight * ScoreIn(resp.semantic_results, i)
        + LexicalWeight * Unit * ScoreIn(resp.keyword_results, i)

\* C4: for every case index of the semantic or the lexical results the fused
\* score is 0.7 times its semantic score plus 0.3 times its lexical score, a
\* missing side counting 0; every index is at most once in the fused candidate
\* list, and no index is there that is in neither input.
C4_FusedScores ==
    SearchAnswered =>
        LET inputs == Indices(resp.semantic_results) \cup Indices(resp.keyword_results)
            fused == resp.combined_scores
            list == resp.sorted_candidates
        IN /\ Indices(fused) = inputs
           /\ \A k \in 1..Len(fused) : WeightScale * fused[k].score = TenfoldFused(fused[k].idx)
           /\ IsInjective([k \in 1..Len(fused) |-> fused[k].idx])
           /\ IsInjective([k \in 1..Len(list) |-> list[k].idx])
           /\ Indices(list) \subseteq inputs
           /\ \A k \in 1..Len(list) : WeightScale * list[k].score = TenfoldFused(list[k].idx)

\* a request where one index has a score on both sides and another on one only
C4_BothSidesMet ==
    /\ SearchAnswered
    /\ \E i \in Indices(resp.sorted_candidates) :
          /\ ScoreIn(resp.semantic_results, i) > 0
          /\ ScoreIn(resp.keyword_results, i) > 0
    /\ \E i \in Indices(resp.combined_scores) :
          /\ i \in Indices(resp.semantic_results)
          /\ i \notin Indices(resp.keyword_results)
    /\ \E i \in Indices(resp.combined_scores) :
          /\ i \notin Indices(resp.semantic_results)
          /\ i \in Indices(resp.keyword_results)

\* the indices in the order they enter the fusion mapping: the semantic
\* results in their order, then the lexical results not among them
FusionOrder ==
    LET sem == resp.semantic_results
        lex == resp.keyword_results
        new == {k \in 1..Len(lex) : lex[k].idx \notin Indices(sem)}
    IN [k \in 1..Len(sem) |-> sem[k].idx]
           \o FilterSeq([k \in 1..Len(lex) |-> lex[k].idx], new)

FusionRank(i) == CHOOSE k \in 1..Len(FusionOrder) : FusionOrder[k] = i

\* the list is the first SEARCH_TOP_CANDIDATES fused entries of an ordering
FirstOfOrdering(Before(_, _)) ==
    LET fused == resp.combined_scores
        list == resp.sorted_candidates
    IN /\ Len(list) = Min({SEARCH_TOP_CANDIDATES, Len(fused)})
       /\ Range(list) \subseteq Range(fused)
       /\ \A j, k \in 1..Len(list) : j < k => Before(list[j], list[k])
       /\ \A c \in Range(list), e \in Range(fused) \ Range(list) : Before(c, e)

HigherThenLowerIndex(a, b) ==
    a.score > b.score \/ (a.score = b.score /\ a.idx < b.idx)

HigherThenEarlierFused(a, b) ==
    a.score > b.score \/ (a.score = b.score /\ FusionRank(a.idx) < FusionRank(b.idx))

EmbeddingCallFailed ==
    /\ pc = "responded"
    /\ resp.kind = "search"
    /\ resp.called
    /\ ~req.embed.ok

\* C6: when the embedding call fails during a search request the failure is
\* not passed on to the caller: the handler goes on without a query vector,
\* the request completes with a normal response, the semantic result list is
\* empty and the ranking uses lexical scores only.
C6_FailureDegradesToLexical ==
    EmbeddingCallFailed =>
        /\ resp.status = 200
        /\ resp.query_embedding = ZeroVector
        /\ resp.semantic_results = <<>>
        /\ \A k \in 1..Len(resp.sorted_candidates) :
              WeightScale * resp.sorted_candidates[k].score
                  = LexicalWeight * Unit
                        * ScoreIn(resp.keyword_results, resp.sorted_candidates[k].idx)
        /\ \A k \in 1..Len(resp.results) :
              /\ resp.results[k].index \in Indices(resp.keyword_results)
              /\ DOMAIN resp.results[k].field_scores = {"keyword"}
        /\ \A j, k \in 1..Len(resp.results) :
              j < k => ScoreIn(resp.keyword_results, resp.results[j].index)
                           >= ScoreIn(resp.keyword_results, resp.results[k].index)

\* a failed call answered with two results of different lexical score
C6_FailedCallRanked ==
    /\ EmbeddingCallFailed
    /\ Len(resp.results) >= 2
    /\ ScoreIn(resp.keyword_results, resp.results[1].index)
           > ScoreIn(resp.keyword_results, resp.results[2].index)

\* C7: a failed embedding call degrades only its own request: a search request
\* issued after a failed one, when the embedding service answers, calls the
\* service again and is ranked with semantic scores.
C7_NextRequestCallsService ==
    (/\ SearchAnswered
     /\ resp.after_failure
     /\ ~IsBlank(req.query)
     /\ req.embed.ok)
        => /\ resp.called
           /\ resp.query_embedding = req.embed.vector
           /\ resp.semantic_results # <<>>

\* C8: no request mutates shared state: after load, whatever search, filters
\* and health requests are served (failed embedding calls included), the case
\* list, the three vector tables and the embedding-backend-active flag keep
\* the values they had when loading finished.
C8_SharedStateKept ==
    pc # "start" =>
        /\ cases = hist.atLoad.cases
        /\ embeddings_fas_args = hist.atLoad.embeddings_fas_args
        /\ embeddings_violation = hist.atLoad.embeddings_violation
        /\ embeddings_ad_desc = hist.atLoad.embeddings_ad_desc
        /\ use_gemini = hist.atLoad.use_gemini

----------------------------------------------------------------------------
(* Properties of the statute facet *)

FiltersAnswered == pc = "responded" /\ resp.kind = "filters" /\ resp.status = 200

\* how many citations of the corpus satisfy a test
CitationsWhere(Test(_)) ==
    SumSeq([i \in 1..Len(cases.list) |->
               Cardinality({k \in 1..Len(CaseArticles(cases.list[i])) :
                               Test(CaseArticles(cases.list[i])[k])})])

\* C10: in the statute tree of the facet response, for every statute number N
\* that occurs in the corpus, the node `ст. N` counts the direct `ст. N`
\* citations of the corpus plus the sum of its part children's counts, and
\* each child `ч. M` counts the `ч. M ст. N` citations of the corpus.
C10_StatuteCounts ==
    FiltersAnswered =>
        LET found == UNION {Range(CaseArticles(cases.list[i])) : i \in 1..Len(cases.list)}
            numbers == {MainMatch(c) : c \in {x \in found : MainMatch(x) # <<>>}}
                         \cup {PartMatch(c).article : c \in {x \in found : PartMatch(x).ok}}
        IN \A num \in numbers :
             \E node \in Named(resp.article_groups, MainKey(num)) :
               LET Direct(c) == MainMatch(c) = num
               IN /\ node.count = CitationsWhere(Direct)
                                  + SumSeq([k \in 1..Len(node.parts) |-> node.parts[k].count])
                  /\ \A k \in 1..Len(node.parts) :
                       LET OfPart(c) == /\ PartMatch(c).ok
                                        /\ PartMatch(c).article = num
                                        /\ PartKey(PartMatch(c).part) = node.parts[k].name
                       IN node.parts[k].count = CitationsWhere(OfPart)

----------------------------------------------------------------------------
(* Properties of the region facet *)

\* a stored division belongs to a region: by the translation table, or by
\* containment of one name in the other, whatever the case of the letters
DivisionMatches(text, region) ==
    \/ [ufas |-> text, region |-> region] \in UFAS_TO_REGION
    \/ PartialMatch(region, text)

\* the cases whose division belongs to one of the regions of a district
CasesOfDistrict(fo) ==
    {i \in 1..Len(cases.list) :
        /\ cases.list[i].FAS_division # ""
        /\ \E k \in 1..Len(fo.regions) :
              DivisionMatches(DivisionText(cases.list[i].FAS_division), fo.regions[k])}

\* C11: in the region tree of the facet response each federal district counts
\* the cases whose stored division matches one of its regions (by the
\* translation table or by case-insensitive containment), every case once, and
\* a district is in the tree exactly when that count is above zero.
C11_DistrictCounts ==
    FiltersAnswered =>
        \A d \in 1..Len(REGION_HIERARCHY) :
            LET fo == REGION_HIERARCHY[d]
                expected == Cardinality(CasesOfDistrict(fo))
                nodes == Named(resp.region_groups, fo.name)
            IN /\ (expected > 0) <=> (nodes # {})
               /\ \A node \in nodes : node.count = expected

----------------------------------------------------------------------------
(* Properties of the reranker *)

\* a search answered by the keyword path: no query vector, a lexical hit
LexicalOnly ==
    /\ SearchAnswered
    /\ resp.query_embedding = ZeroVector
    /\ resp.keyword_results # <<>>

\* C12: in lexical-only ranking every result's score is its candidate's
\* lexical score divided by the largest lexical score among the candidates
\* being reranked (to the four decimals of the response), so it lies in
\* [0, 1]; its per-field scores hold the single key "keyword" with the same
\* value; and the candidate of the highest lexical score comes first, with
\* keyword score 1.0.
C12_KeywordFallback ==
    LexicalOnly =>
        LET pool == resp.filtered_candidates
            Lexical(i) == ScoreIn(resp.keyword_results, i)
            top == Max({Lexical(pool[k].idx) : k \in 1..Len(pool)})
            results == resp.results
        IN /\ \A k \in 1..Len(results) :
                 /\ results[k].index \in Indices(pool)
                 /\ results[k].score = RoundDiv(Lexical(results[k].index) * Unit, top)
                 /\ results[k].score >= 0
                 /\ results[k].score <= Unit
                 /\ results[k].field_scores = [keyword |-> results[k].score]
           /\ pool # <<>> =>
                 /\ results # <<>>
                 /\ Lexical(results[1].index) = top
                 /\ results[1].field_scores = [keyword |-> Unit]

\* a lexical-only answer with a second result below 1.0
C12_TwoKeywordResults ==
    /\ LexicalOnly
    /\ Len(resp.results) >= 2
    /\ resp.results[1].score = Unit
    /\ resp.results[2].score > 0
    /\ resp.results[2].score < Unit

----------------------------------------------------------------------------
(* The rescaling of the reranker on every float: one candidate's two raw
   similarities are rescaled and combined as in the normal path. *)

\* raw similarities in halves of 1.0, from -MaxRawHalves/2 to MaxRawHalves/2
MaxRawHalves == 4

RawSimilarities ==
    {Finite(k * (Unit \div 2)) : k \in (0 - MaxRawHalves)..MaxRawHalves}
        \cup {Finite(1), Finite(0 - 1), Finite(Unit - 1), Finite(1 - Unit)}
        \cup {NaN, PosInf, NegInf}

RescaleCall ==
    /\ pc = "call"
    /\ req.kind = "rescale"
    /\ LET viol == NormalizeFloat(req.violation_summary, 0 - Unit, Unit)
           ad == NormalizeFloat(req.ad_description, 0 - Unit, Unit)
       IN resp' = [kind |-> "rescale",
                   field_scores |-> [violation_summary |-> viol, ad_description |-> ad],
                   score |-> FinalScore(viol, ad)]
    /\ pc' = "done"
    /\ UNCHANGED <<cases, embeddings_fas_args, embeddings_violation,
                   embeddings_ad_desc, use_gemini, req, hist>>

InitRescale ==
    \E viol \in RawSimilarities, ad \in RawSimilarities :
        /\ req = [kind |-> "rescale", violation_summary |-> viol, ad_description |-> ad]
        /\ resp = NoValue
        /\ pc = "call"
        /\ cases = NotLoaded
        /\ embeddings_fas_args = NotLoaded
        /\ embeddings_violation = NotLoaded
        /\ embeddings_ad_desc = NotLoaded
        /\ use_gemini = FALSE
        /\ hist = NoValue

NextRescale == RescaleCall

SpecRescale == InitRescale /\ [][NextRescale]_vars

RescaleDone == pc = "done" /\ resp.kind = "rescale"

InUnitRange(s) == 0 <= s /\ s <= Unit

\* C13: every score the reranker's rescaling produces (each per-field score
\* and the final score) lies in [0, 1] for every raw value: exactly -1, 0 and
\* 1, values outside [-1, 1], NaN and both infinities; NaN and infinite
\* values give 0.
C13_ScoresInUnitRange ==
    RescaleDone =>
        /\ InUnitRange(resp.field_scores.violation_summary)
        /\ InUnitRange(resp.field_scores.ad_description)
        /\ InUnitRange(resp.score)
        /\ req.violation_summary.kind # "finite" => resp.field_scores.violation_summary = 0
        /\ req.ad_description.kind # "finite" => resp.field_scores.ad_description = 0
        /\ req.violation_summary = Finite(0 - Unit) => resp.field_scores.violation_summary = 0
        /\ req.violation_summary = Finite(0) => resp.field_scores.violation_summary = Unit \div 2
        /\ req.violation_summary = Finite(Unit) => resp.field_scores.violation_summary = Unit

\* a NaN beside a value above 1: scores 0 and 1.0, final score 0.4
C13_NaNBesideLarge ==
    /\ RescaleDone
    /\ req.violation_summary = NaN
    /\ req.ad_description = Finite(2 * Unit)
    /\ resp.field_scores.ad_description = Unit
    /\ resp.score = (AdDescriptionWeight * Unit) \div WeightScale

----------------------------------------------------------------------------
(* The normal path of the reranker, seen in the search response *)

\* a search answered with a non-zero query vector
NormalPath == SearchAnswered /\ AnyNonZero(resp.query_embedding)

\* a value clamped to [0, 1]
Clamped(x) == IF x < 0 THEN 0 ELSE IF x > Unit THEN Unit ELSE x

\* a field has no vector for case i
NoVector(table, i) ==
    \/ table = NotLoaded
    \/ i > Len(table.rows)
    \/ \A k \in 1..Len(table.rows[i]) : table.rows[i][k] = 0

\* the cosine similarity to the query vector, rescaled from [-1, 1] to [0, 1]
RescaledCosine(table, i) ==
    LET q == resp.query_embedding
        row == table.rows[i]
        cosine == (Dot(q, row) * Unit) \div (Norm(q) * Norm(row))
    IN Clamped((cosine + Unit) \div 2)

ExpectedFieldScore(table, i) == IF NoVector(table, i) THEN 0 ELSE RescaledCosine(table, i)

\* C14: on the normal path each candidate's final score is the sum over the
\* rerank fields of weight x field score, divided by the sum of the weights
\* and clamped to [0, 1]; a field score is the rescaled cosine similarity, and
\* exactly 0 when the field's table is absent, has no row for the case, or the
\* case's stored vector is all zeros.
C14_WeightedFieldScores ==
    NormalPath =>
        \A k \in 1..Len(resp.results) :
            LET r == resp.results[k]
                viol == ExpectedFieldScore(embeddings_violation, r.index)
                ad == ExpectedFieldScore(embeddings_ad_desc, r.index)
            IN /\ r.field_scores = [violation_summary |-> viol, ad_description |-> ad]
               /\ r.score = Clamped((ViolationWeight * viol + AdDescriptionWeight * ad)
                                        \div (ViolationWeight + AdDescriptionWeight))

\* a result whose violation vector is all zeros beside a scoring description
C14_ZeroRowScored ==
    /\ NormalPath
    /\ \E k \in 1..Len(resp.results) :
          LET r == resp.results[k]
          IN /\ embeddings_violation # NotLoaded
             /\ ~AnyNonZero(embeddings_violation.rows[r.index])
             /\ r.field_scores.violation_summary = 0
             /\ r.field_scores.ad_description > 0
             /\ r.score > 0

----------------------------------------------------------------------------
(* Properties of semantic_search, seen in the search response *)

\* the list semantic_search returned is a descending cut of the similarities
\* of the primary table, whose equal entries satisfy Tie
DescendingCut(Tie(_, _)) ==
    LET list == resp.semantic_results
        rows == embeddings_fas_args.rows
        q == resp.query_embedding
    IN /\ Len(list) <= SEARCH_TOP_CANDIDATES
       /\ IsInjective([k \in 1..Len(list) |-> list[k].idx])
       /\ \A k \in 1..Len(list) :
             /\ list[k].idx \in 1..Len(rows)
             /\ list[k].score = (Dot(rows[list[k].idx], q) * Unit) \div Norm(q)
       /\ \A j, k \in 1..Len(list) :
             j < k => /\ list[j].score >= list[k].score
                      /\ list[j].score = list[k].score => Tie(list[j], list[k])

AscendingIndex(a, b) == a.idx < b.idx

AnyOrder(a, b) == TRUE

\* C15: every list returned by semantic_search is ordered by descending
\* similarity, two entries of equal similarity appear in ascending case-index
\* order, the list has at most topK entries, and no case index appears twice.
C15_TiesAscending == NormalPath => DescendingCut(AscendingIndex)

\* What semantic_search does guarantee: every list returned by semantic_search is ordered
\* by descending similarity, with no order fixed between two entries of equal
\* similarity; the list has at most topK entries, and no case index appears
\* twice.
C15_DescendingSimilarity == NormalPath => DescendingCut(AnyOrder)

\* a full list with two equal similarities, the higher index first
C15_TieDescendingIndex ==
    /\ NormalPath
    /\ Len(resp.semantic_results) = SEARCH_TOP_CANDIDATES
    /\ Len(embeddings_fas_args.rows) > SEARCH_TOP_CANDIDATES
    /\ resp.semantic_results[1].score = resp.semantic_results[2].score
    /\ resp.semantic_results[1].idx > resp.semantic_results[2].idx

----------------------------------------------------------------------------
(* Properties of keyword_search, seen in the search response *)

\* the number of (token, field) pairs where a query token longer than three
\* characters occurs in the field
TokenHits(case, query) ==
    LET texts == SearchTexts(case)
    IN Cardinality({wf \in Tokens(Lower(query)) \X (1..Len(texts)) :
           Len(wf[1]) > MinWordLen /\ Contains(Lower(texts[wf[2]]), wf[1])})

\* the fields of the case that contain the whole lowercased query
FieldsWithQuery(case, query) ==
    LET texts == SearchTexts(case)
    IN {f \in 1..Len(texts) : Contains(Lower(texts[f]), Lower(query))}

\* every entry of the lexical list has the score Bonus(case) + token hits
KeywordScoresAre(Bonus(_)) ==
    \A k \in 1..Len(resp.keyword_results) :
        LET entry == resp.keyword_results[k]
        IN entry.score = Bonus(cases.list[entry.idx]) + TokenHits(cases.list[entry.idx], req.query)

OneBonus(case) ==
    IF FieldsWithQuery(case, req.query) # {} THEN FullQueryBonus ELSE 0

BonusPerField(case) ==
    FullQueryBonus * Cardinality(FieldsWithQuery(case, req.query))

\* C16: keyword_search scores a case 10 times (1 if the full lowercased query
\* occurs in any of the five searchable fields, else 0) plus 1 for each
\* distinct query token longer than 3 characters for each field it occurs in;
\* the full-query bonus is 10 however many fields contain the query.
C16_OneBonusPerCase == SearchAnswered => KeywordScoresAre(OneBonus)

\* C16 as the code has it: keyword_search scores a case 10 for every
\* searchable field that contains the full lowercased query, plus 1 for each
\* distinct query token longer than 3 characters for each field it occurs in.
C16_BonusPerField == SearchAnswered => KeywordScoresAre(BonusPerField)

\* a case that holds the query in two fields
C16_QueryInTwoFields ==
    /\ SearchAnswered
    /\ \E k \in 1..Len(resp.keyword_results) :
          Cardinality(FieldsWithQuery(cases.list[resp.keyword_results[k].idx], req.query)) >= 2

\* entry a comes before entry b in the order of keyword_search
KeywordBefore(a, b) ==
    a.score > b.score \/ (a.score = b.score /\ a.idx < b.idx)

\* the cases keyword_search scores above 0, as entries
PositiveEntries ==
    LET sc == [n \in 1..Len(cases.list) |-> CaseScore(cases.list[n], req.query)]
    IN {[idx |-> n, score |-> sc[n]] : n \in {m \in DOMAIN sc : sc[m] > 0}}

\* C17: keyword_search never returns a case whose score is 0; its result is
\* ordered by descending score, cases of equal score in ascending case-index
\* order, and it holds at most topK entries, the first topK of that ordering.
C17_FirstOfDescendingOrder ==
    SearchAnswered =>
        LET list == resp.keyword_results
            listed == Range(list)
            positive == PositiveEntries
        IN /\ listed \subseteq positive
           /\ \A k \in 1..Len(list) : list[k].score > 0
           /\ \A j, k \in 1..Len(list) : j < k => KeywordBefore(list[j], list[k])
           /\ Len(list) = Min({KEYWORD_TOP_K, Cardinality(positive)})
           /\ \A a \in listed : \A b \in positive \ listed : KeywordBefore(a, b)

\* three cases match, two of them with the same score, and the list is cut
C17_TieAndCut ==
    /\ SearchAnswered
    /\ Cardinality(PositiveEntries) > KEYWORD_TOP_K
    /\ Len(resp.keyword_results) = KEYWORD_TOP_K
    /\ \E a, b \in PositiveEntries : a.idx # b.idx /\ a.score = b.score

----------------------------------------------------------------------------
(* Error handling of the search endpoint *)

SearchHandled == pc = "responded" /\ resp.kind = "search"

Loaded == cases # NotLoaded /\ embeddings_fas_args # NotLoaded

\* C18: once the corpus is loaded, every search request with a valid query
\* and topK completes with a normal response (possibly with fewer or no
\* results), for every content of the case fields, every filter combination
\* and every outcome of the embedding call.
C18_AlwaysNormalResponse == (SearchHandled /\ Loaded) => resp.status = 200

\* the handler worked without a query vector: no call was made, the call
\* failed, or the service returned the zero vector
NoQueryVector ==
    \/ ~resp.called
    \/ ~req.embed.ok
    \/ req.embed.vector = ZeroVector

\* no search field of any case holds the query or one of its long tokens
NoLexicalMatch ==
    \A n \in 1..Len(cases.list) : CaseScore(cases.list[n], req.query) = 0

\* C19: a search whose query has no lexical match and no semantic match in a
\* non-empty loaded corpus gets a normal response, not an error, with an
\* empty result list and a total case count equal to the size of the corpus.
C19_NoMatchEmptyResults ==
    (SearchHandled /\ Loaded /\ cases.list # <<>> /\ NoQueryVector /\ NoLexicalMatch)
        => /\ resp.status = 200
           /\ resp.results = <<>>
           /\ resp.total_cases = Len(cases.list)

\* C20: a search request made while the case list or the primary vector
\* table is not loaded gets a service-unavailable (503) response, without a
\* call of the embedding service and without a change of shared state (which
\* therefore still is as loading left it); once both are loaded, a search
\* request never gets that response.
C20_UnavailableUntilLoaded ==
    SearchHandled =>
        IF Loaded THEN resp.status # 503
        ELSE /\ resp.status = 503
             /\ ~resp.called
             /\ ~hist.failed
             /\ cases = hist.atLoad.cases
             /\ embeddings_fas_args = hist.atLoad.embeddings_fas_args
             /\ embeddings_violation = hist.atLoad.embeddings_violation
             /\ embeddings_ad_desc = hist.atLoad.embeddings_ad_desc
             /\ use_gemini = hist.atLoad.use_gemini

\* a refused request of a service that has its case list but not its primary
\* table, with Gemini configured and an embedding service that would fail
C20_RefusedWithoutCall ==
    /\ SearchHandled
    /\ resp.status = 503
    /\ resp.after_failure = FALSE
    /\ cases # NotLoaded
    /\ embeddings_fas_args = NotLoaded
    /\ use_gemini
    /\ ~IsBlank(req.query)
    /\ ~req.embed.ok

----------------------------------------------------------------------------
(* The year category of apply_filters, on the fixtures of SpecFilter *)

\* the integer the first four characters of a date parse to, if they do
YearRead(date) == ParseInt(Prefix(date, YearPrefixLen))

DateUnreadable(case) == ~YearRead(case.document_date).ok

\* the candidates apply_filters returned, as a set of case indices
KeptIndices == {resp.result[k].idx : k \in 1..Len(resp.result)}

CandidateIndices == {req.candidates[k].idx : k \in 1..Len(req.candidates)}

\* the filters of the request with the year category switched off
OtherCategories == [req.filters EXCEPT !.year = {}]

\* C21: with a year filter active a case is kept only if the first 4
\* characters of its document date parse as an integer of the filter's year
\* set, a case with an absent or unparsable date being excluded; with no year
\* filter active such a case is not excluded for its date and is kept exactly
\* when it passes the other filters.
C21_YearCategory ==
    FilterCallDone =>
        /\ req.filters.year # {} =>
              /\ \A i \in KeptIndices :
                    /\ YearRead(cases.list[i].document_date).ok
                    /\ YearRead(cases.list[i].document_date).value \in req.filters.year
              /\ \A i \in CandidateIndices :
                    i \in KeptIndices <=>
                        /\ YearRead(cases.list[i].document_date).ok
                        /\ YearRead(cases.list[i].document_date).value \in req.filters.year
                        /\ (FiltersEmpty(OtherCategories)
                               \/ CaseKept(cases.list[i], OtherCategories))
        /\ (req.filters.year = {} /\ ~FiltersEmpty(req.filters)) =>
              \A i \in CandidateIndices :
                  i \in KeptIndices <=> CaseKept(cases.list[i], OtherCategories)
        /\ FiltersEmpty(req.filters) => resp.result = req.candidates

\* a year filter drops a candidate whose date cannot be read and keeps one
\* whose year is in the set
C21_UnreadableDateDropped ==
    /\ FilterCallDone
    /\ req.filters.year # {}
    /\ \E i \in CandidateIndices \ KeptIndices : DateUnreadable(cases.list[i])
    /\ \E i \in KeptIndices : ~DateUnreadable(cases.list[i])

----------------------------------------------------------------------------
(* Calls of semantic_search alone: the primary table is set (or left
   unloaded), the function is called once with a query vector and a top_k. *)

MaxRows == 2

RowVectors == {ZeroVector, Axis(1, 1), Axis(2, 1), Axis(1, 0 - 1)}

QueryVectors == {ZeroVector, Axis(1, 1), Axis(2, 2)}

PrimaryTables ==
    {NotLoaded} \cup {Table(rows) : rows \in UNION {SeqsOfLen(RowVectors, n) : n \in 0..MaxRows}}

InitSemantic ==
    \E table \in PrimaryTables, query_embedding \in QueryVectors, top_k \in 1..MaxTopK :
        /\ embeddings_fas_args = table
        /\ req = [kind |-> "semantic_search", query_embedding |-> query_embedding,
                  top_k |-> top_k]
        /\ resp = NoValue
        /\ pc = "call"
        /\ cases = NotLoaded
        /\ embeddings_violation = NotLoaded
        /\ embeddings_ad_desc = NotLoaded
        /\ use_gemini = TRUE
        /\ hist = NoValue

SemanticSearchCall ==
    /\ pc = "call"
    /\ req.kind = "semantic_search"
    /\ \E result \in semantic_search(req.query_embedding, req.top_k, embeddings_fas_args) :
          resp' = [kind |-> "semantic_search", result |-> result]
    /\ pc' = "done"
    /\ UNCHANGED <<cases, embeddings_fas_args, embeddings_violation,
                   embeddings_ad_desc, use_gemini, req, hist>>

NextSemantic == SemanticSearchCall

SpecSemantic == InitSemantic /\ [][NextSemantic]_vars

SemanticCallDone == pc = "done" /\ resp.kind = "semantic_search"

\* the query vector has zero magnitude
ZeroMagnitude(v) == \A i \in 1..Len(v) : v[i] = 0

\* C22: semantic_search returns an empty list, and no error, whenever the
\* primary table is not loaded or the query vector has zero magnitude; in
\* every other case it returns a non-empty list when the table has at least
\* one row and topK >= 1.
C22_EmptyOnlyWithoutSignal ==
    SemanticCallDone =>
        IF embeddings_fas_args = NotLoaded \/ ZeroMagnitude(req.query_embedding)
        THEN resp.result = <<>>
        ELSE (Len(embeddings_fas_args.rows) >= 1 /\ req.top_k >= 1) => resp.result # <<>>

\* a non-empty list although no row has a positive similarity to the query
C22_ReturnedWithoutSimilarity ==
    /\ SemanticCallDone
    /\ embeddings_fas_args # NotLoaded
    /\ ~ZeroMagnitude(req.query_embedding)
    /\ resp.result # <<>>
    /\ \A k \in 1..Len(resp.result) : resp.result[k].score <= 0

----------------------------------------------------------------------------
(* The three hierarchy builders run twice on one corpus *)

IndustriesPerRun == 2

InitTwice ==
    \E docs \in [1..NumCases -> Documents],
       industries \in SeqsOfLen(IndustryPaths, IndustriesPerRun) :
        /\ cases = CaseList([i \in 1..NumCases |-> DocumentCase(docs[i])])
        /\ req = [kind |-> "hierarchies", industries |-> industries]
        /\ resp = NoValue
        /\ hist = NoValue
        /\ pc = "first"
        /\ embeddings_fas_args = NotLoaded
        /\ embeddings_violation = NotLoaded
        /\ embeddings_ad_desc = NotLoaded
        /\ use_gemini = FALSE

\* one run of the builders, on the arguments get_filter_options collects from
\* the corpus; the result of the run before is kept beside the new one
RunBuilders ==
    /\ pc \in {"first", "second"}
    /\ req.kind = "hierarchies"
    /\ LET list == cases.list
           regions == {list[i].FAS_division : i \in 1..Len(list)} \ {""}
           articles == UNION {Range(CaseArticles(list[i])) : i \in 1..Len(list)}
       IN resp' = [kind |-> "hierarchies",
                   industry_groups |-> build_industry_hierarchy(req.industries),
                   region_groups |->
                       build_region_hierarchy(SetToSeq({DivisionText(r) : r \in regions})),
                   article_groups |-> build_article_hierarchy(SetToSeq(articles))]
    /\ hist' = resp
    /\ pc' = IF pc = "first" THEN "second" ELSE "done"
    /\ UNCHANGED <<cases, embeddings_fas_args, embeddings_violation,
                   embeddings_ad_desc, use_gemini, req>>

NextTwice == RunBuilders

SpecTwice == InitTwice /\ [][NextTwice]_vars

RanTwice == pc = "done" /\ resp.kind = "hierarchies"

----------------------------------------------------------------------------
(* Calls of rerank_with_field_embeddings alone: the corpus and the two
   rerank tables are set, the function is called once on a candidate list. *)

CandidateScores == {1, 2}

\* candidate lists: distinct case indices in any order, each with a score
ScoredCandidateLists(n) ==
    UNION {{[i \in 1..Len(q) |-> [idx |-> q[i], score |-> sc[i]]] :
               sc \in SeqsOfLen(CandidateScores, Len(q))} :
           q \in {r \in UNION {SeqsOfLen(1..n, k) : k \in 0..n} : IsInjective(r)}}

RerankQueries == {ZeroVector, Axis(1, 1)}

InitRerank ==
    \E docs \in [1..NumCases -> Documents],
       candidates \in ScoredCandidateLists(NumCases),
       query_embedding \in RerankQueries,
       use_keyword_scores \in BOOLEAN :
        /\ cases = CaseList([i \in 1..NumCases |-> DocumentCase(docs[i])])
        /\ embeddings_violation = Table([i \in 1..NumCases |-> docs[i].viol])
        /\ embeddings_ad_desc = Table([i \in 1..NumCases |-> docs[i].ad])
        /\ embeddings_fas_args = Table([i \in 1..NumCases |-> docs[i].fas])
        /\ req = [kind |-> "rerank", candidates |-> candidates,
                  query_embedding |-> query_embedding,
                  use_keyword_scores |-> use_keyword_scores]
        /\ resp = NoValue
        /\ pc = "call"
        /\ use_gemini = TRUE
        /\ hist = NoValue

RerankCall ==
    /\ pc = "call"
    /\ req.kind = "rerank"
    /\ resp' = [kind |-> "rerank",
                result |-> rerank_with_field_embeddings(
                               req.candidates, req.query_embedding, req.use_keyword_scores,
                               cases.list, embeddings_violation, embeddings_ad_desc)]
    /\ pc' = "done"
    /\ UNCHANGED <<cases, embeddings_fas_args, embeddings_violation,
                   embeddings_ad_desc, use_gemini, req, hist>>

NextRerank == RerankCall

SpecRerank == InitRerank /\ [][NextRerank]_vars

RerankDone == pc = "done" /\ resp.kind = "rerank"

\* the place of case index i in the candidate list passed in
CandidatePlace(i) == CHOOSE k \in 1..Len(req.candidates) : req.candidates[k].idx = i

\* which of the three paths the call took
RerankPath ==
    IF ~ZeroMagnitude(req.query_embedding) THEN "normal"
    ELSE IF req.use_keyword_scores THEN "keyword" ELSE "zero"

\* C24: the reranker's output is sorted by descending final score, and
\* candidates of equal final score keep the relative order they had in the
\* candidate list passed in, on the normal path, on the keyword-fallback path
\* and on the all-zero path.
C24_StableDescending ==
    RerankDone =>
        LET out == resp.result
        IN /\ Len(out) = Len(req.candidates)
           /\ {out[k].index : k \in 1..Len(out)}
                  = {req.candidates[k].idx : k \in 1..Len(req.candidates)}
           /\ \A j, k \in 1..Len(out) :
                 j < k => /\ out[j].score >= out[k].score
                          /\ out[j].score = out[k].score
                                 => CandidatePlace(out[j].index) < CandidatePlace(out[k].index)

\* three candidates, higher index first, two of them with equal final score,
\* on a given path
TieOnPath(path) ==
    /\ RerankDone
    /\ RerankPath = path
    /\ Len(resp.result) >= 3
    /\ \E j \in 1..(Len(resp.result) - 1) :
          /\ resp.result[j].score = resp.result[j + 1].score
          /\ resp.result[j].index > resp.result[j + 1].index
    /\ path # "zero" => resp.result[1].score > resp.result[Len(resp.result)].score

C24_TieOnNormalPath == TieOnPath("normal")

----------------------------------------------------------------------------
(* The embedding backend flag over the life of the process *)

\* a search request has seen an embedding failure, or startup did not
\* configure the client
BackendLost == hist.failed \/ ~hist.atLoad.use_gemini

HealthAnswered == pc = "responded" /\ resp.kind = "health"

\* C25: use_gemini only ever goes from true to false: once a search request
\* has seen an embedding failure, or startup failed to configure the client,
\* the flag is false for the rest of the process's life, no later request calls
\* the embedding service, every later search is ranked lexical-only, and
\* health reports the backend as inactive.
C25_BackendStaysOff ==
    pc # "start" =>
        /\ use_gemini <=> ~BackendLost
        /\ (SearchHandled /\ (resp.after_failure \/ ~hist.atLoad.use_gemini)) =>
              /\ ~resp.called
              /\ resp.status = 200 =>
                    /\ resp.query_embedding = ZeroVector
                    /\ resp.semantic_results = <<>>
                    /\ \A k \in 1..Len(resp.results) :
                          /\ DOMAIN resp.results[k].field_scores = {"keyword"}
                          /\ resp.results[k].index \in Indices(resp.keyword_results)
        /\ (HealthAnswered /\ BackendLost) =>
              /\ ~resp.model_loaded
              /\ resp.embedding_model = "local-embeddings"

\* a search after a failed one, with a service that would answer, ranked by
\* lexical scores only
C25_LaterSearchLexical ==
    /\ SearchAnswered
    /\ resp.after_failure
    /\ hist.atLoad.use_gemini
    /\ ~IsBlank(req.query)
    /\ req.embed.ok
    /\ ~resp.called
    /\ resp.results # <<>>

----------------------------------------------------------------------------
(* The search response as a whole *)

\* the citations a stored case was written from
CitesOf(case) ==
    (CHOOSE d \in Documents : case \in {DocumentCase(d), StoredCase(d, TRUE)}).cites

\* the citation a filter text stands for
CitationOf(text) == CHOOSE c \in Citations : FormatCitation(c) = text

\* the case satisfies every active filter of the request, the statute filter
\* by the matching rule on the citations the case holds
SatisfiesFilters(case, filters) ==
    /\ filters.year # {} =>
          /\ YearRead(case.document_date).ok
          /\ YearRead(case.document_date).value \in filters.year
    /\ filters.region # {} => case.FAS_division \in filters.region
    /\ filters.industry # {} =>
          case.defendant_industry \in expand_filter_categories(filters.industry)
    /\ filters.article # <<>> =>
          \E f \in 1..Len(filters.article) : \E c \in 1..Len(CitesOf(case)) :
              RuleMatches(CitationOf(filters.article[f]), CitesOf(case)[c])

\* at most topK results, no case twice, in non-increasing score order, each
\* passing Test
ResponseIsSafe(Test(_)) ==
    LET results == resp.results
    IN /\ Len(results) <= req.top_k
       /\ \A j, k \in 1..Len(results) :
             j < k => /\ results[j].index # results[k].index
                      /\ results[j].score >= results[k].score
       /\ \A k \in 1..Len(results) : Test(cases.list[results[k].index])

PassesRule(case) == SatisfiesFilters(case, req.filters)

PassesCode(case) == FiltersEmpty(req.filters) \/ CaseKept(case, req.filters)

\* C26: every search response holds at most topK results, no case appears in
\* it twice, every returned case satisfies every active filter of the request,
\* and the results are in non-increasing score order.
C26_SafeResponse == SearchAnswered => ResponseIsSafe(PassesRule)

\* What holds of every search response: the same with "satisfies" read as the
\* decision of apply_filters.
C26_SafeByTheMatcher == SearchAnswered => ResponseIsSafe(PassesCode)

\* case i has a non-zero lexical or semantic score for the query of the request
HasScore(i) ==
    \/ CaseScore(cases.list[i], req.query) > 0
    \/ /\ AnyNonZero(resp.query_embedding)
       /\ i <= Len(embeddings_fas_args.rows)
       /\ Similarity(embeddings_fas_args.rows[i], resp.query_embedding) # 0

\* C27: filtering loses no matching case: when filters are active and a
\* search returns fewer than topK results, every case of the corpus that has a
\* non-zero lexical or semantic score for the query and passes all active
\* filters is in the results.
C27_NoMatchLost ==
    (SearchAnswered /\ ~FiltersEmpty(req.filters) /\ Len(resp.results) < req.top_k)
        => \A i \in 1..Len(cases.list) :
               (HasScore(i) /\ CaseKept(cases.list[i], req.filters))
                   => i \in {resp.results[k].index : k \in 1..Len(resp.results)}

----------------------------------------------------------------------------
(* Facet values used as filters: the values get_filter_options offers are
   read from a corpus, then apply_filters is called with each of them as the
   only filter value. *)

StoredDivisions == {"r1", "r2", "r3", ""}

\* the stored division whose name is the text, or a name no case holds
DivisionNamed(text) ==
    IF \E r \in StoredDivisions \ {""} : DivisionText(r) = text
    THEN CHOOSE r \in StoredDivisions \ {""} : DivisionText(r) = text
    ELSE "none of the corpus"

TextForms == {"repr", "plain"}

InitRoundTrip ==
    /\ \/ \E stored \in CitationLists, form \in TextForms :
            /\ cases = CaseList(<<[BlankCase EXCEPT
                                      !.legal_provisions = MakeField(form, stored)]>>)
            /\ req = [kind |-> "statute_round_trip"]
       \/ \E divisions \in SeqsOfLen(StoredDivisions, NumFilterCases) :
            /\ cases = CaseList([i \in 1..NumFilterCases |->
                                    [BlankCase EXCEPT !.FAS_division = divisions[i]]])
            /\ req = [kind |-> "region_round_trip"]
    /\ resp = NoValue
    /\ hist = NoValue
    /\ pc = "call"
    /\ embeddings_fas_args = NotLoaded
    /\ embeddings_violation = NotLoaded
    /\ embeddings_ad_desc = NotLoaded
    /\ use_gemini = TRUE

\* every case of the corpus as a candidate
AllCandidates == [i \in 1..Len(cases.list) |-> [idx |-> i, score |-> 1]]

\* the statute list of get_filter_options, then one apply_filters per value
StatuteRoundTrip ==
    /\ pc = "call"
    /\ req.kind = "statute_round_trip"
    /\ \E articles \in {SetToSeq(UNION {Range(CaseArticles(cases.list[i])) :
                                          i \in 1..Len(cases.list)})} :
         \E kept \in {[k \in 1..Len(articles) |->
                          apply_filters(AllCandidates,
                                        [NoFilters EXCEPT !.article = <<articles[k]>>],
                                        cases.list)]} :
            resp' = [kind |-> "statute_round_trip", articles |-> articles, kept |-> kept]
    /\ pc' = "done"
    /\ UNCHANGED <<cases, embeddings_fas_args, embeddings_violation,
                   embeddings_ad_desc, use_gemini, req, hist>>

\* the region tree of get_filter_options, then one apply_filters per region
\* name of the tree
RegionRoundTrip ==
    /\ pc = "call"
    /\ req.kind = "region_round_trip"
    /\ \E regions \in {{cases.list[i].FAS_division : i \in 1..Len(cases.list)} \ {""}} :
         \E groups \in {build_region_hierarchy(
                            SetToSeq({DivisionText(r) : r \in regions}))} :
           \E names \in {UNION {Range(groups[g].regions) : g \in 1..Len(groups)}} :
             \E kept \in {[name \in names |->
                              apply_filters(AllCandidates,
                                            [NoFilters EXCEPT
                                                !.region = {DivisionNamed(name)}],
                                            cases.list)]} :
                resp' = [kind |-> "region_round_trip", region_groups |-> groups,
                         kept |-> kept]
    /\ pc' = "done"
    /\ UNCHANGED <<cases, embeddings_fas_args, embeddings_violation,
                   embeddings_ad_desc, use_gemini, req, hist>>

NextRoundTrip == StatuteRoundTrip \/ RegionRoundTrip

SpecRoundTrip == InitRoundTrip /\ [][NextRoundTrip]_vars

StatuteTripDone == pc = "done" /\ resp.kind = "statute_round_trip"

RegionTripDone == pc = "done" /\ resp.kind = "region_round_trip"

\* the cases from whose legal_provisions field the facet value was extracted
ExtractedFrom(article) ==
    {i \in 1..Len(cases.list) : article \in Range(CaseArticles(cases.list[i]))}

\* C28: facet values round-trip into the statute filter: for every citation
\* string of the flat statute list of the facet response, a search filtered by
\* that one string excludes no case from whose legal_provisions field the
\* string was extracted.
C28_StatuteRoundTrip ==
    StatuteTripDone =>
        \A k \in 1..Len(resp.articles) :
            ExtractedFrom(resp.articles[k])
                \subseteq {resp.kept[k][j].idx : j \in 1..Len(resp.kept[k])}

\* the cases the hierarchy builder counted under a region of REGION_HIERARCHY
CountedUnder(region) ==
    {i \in 1..Len(cases.list) :
        /\ cases.list[i].FAS_division # ""
        /\ DivisionText(cases.list[i].FAS_division)
               \in MatchedUfas(SetToSeq({DivisionText(cases.list[n].FAS_division) :
                                            n \in 1..Len(cases.list)} \ {<<>>}),
                               region)}

\* the regions of REGION_HIERARCHY shown under the name
RegionsShownAs(name) ==
    UNION {{REGION_HIERARCHY[d].regions[k] : k \in
               {n \in 1..Len(REGION_HIERARCHY[d].regions) :
                   CleanRegion(REGION_HIERARCHY[d].regions[n]) = name}} :
           d \in 1..Len(REGION_HIERARCHY)}

\* C29: facet values round-trip into the region filter: for every region name
\* listed under a district in the region hierarchy of the facet response, a
\* search filtered by that region name keeps the cases whose stored division
\* was counted under that region by the hierarchy builder.
C29_RegionRoundTrip ==
    RegionTripDone =>
        \A name \in DOMAIN resp.kept :
            \A region \in RegionsShownAs(name) :
                CountedUnder(region)
                    \subseteq {resp.kept[name][j].idx : j \in 1..Len(resp.kept[name])}

----------------------------------------------------------------------------
(* The industry tree of the facet response, built on corpora whose stored
   industries are values of INDUSTRY_HIERARCHY, a value outside it, or absent. *)

StoredIndustries == {"food/retail", "food/cafe", "banks", "tobacco", ""}

MappingCases == 3

InitMapping ==
    /\ \E n \in 1..MappingCases :
         \E stored \in SeqsOfLen(StoredIndustries, n) :
            cases = CaseList([i \in 1..n |->
                                 [BlankCase EXCEPT !.defendant_industry = stored[i]]])
    /\ req = [kind |-> "industry_groups"]
    /\ resp = NoValue
    /\ hist = NoValue
    /\ pc = "call"
    /\ embeddings_fas_args = NotLoaded
    /\ embeddings_violation = NotLoaded
    /\ embeddings_ad_desc = NotLoaded
    /\ use_gemini = TRUE

BuildFromMapping ==
    /\ pc = "call"
    /\ req.kind = "industry_groups"
    /\ resp' = [kind |-> "industry_groups",
                industry_groups |-> build_industry_hierarchy_from_mapping(cases.list)]
    /\ pc' = "done"
    /\ UNCHANGED <<cases, embeddings_fas_args, embeddings_violation,
                   embeddings_ad_desc, use_gemini, req, hist>>

NextMapping == BuildFromMapping

SpecMapping == InitMapping /\ [][NextMapping]_vars

MappingDone == pc = "done" /\ resp.kind = "industry_groups"

CasesWithIndustry ==
    {i \in 1..Len(cases.list) : cases.list[i].defendant_industry # ""}

\* leaf counts, parent sums and no node of count 0, on a tree of three levels
TreeCountsRight(groups) ==
    \A g \in 1..Len(groups) :
        LET industry == groups[g]
        IN /\ industry.count > 0
           /\ industry.count
                 = SumSeq([k \in 1..Len(industry.sub_industries) |->
                              industry.sub_industries[k].count])
           /\ \A a \in 1..Len(industry.sub_industries) :
                LET sphere == industry.sub_industries[a]
                IN /\ sphere.count > 0
                   /\ sphere.count
                         = SumSeq([k \in 1..Len(sphere.sub_industries) |->
                                      sphere.sub_industries[k].count])
                   /\ \A b \in 1..Len(sphere.sub_industries) :
                        LET leaf == sphere.sub_industries[b]
                        IN /\ leaf.count > 0
                           /\ leaf.count
                                 = Cardinality({i \in 1..Len(cases.list) :
                                       cases.list[i].defendant_industry = leaf.name})

TopLevelTotal(groups) == SumSeq([g \in 1..Len(groups) |-> groups[g].count])

\* C30: in the industry hierarchy returned by the facet request
\* (build_industry_hierarchy_from_mapping) a leaf's count is the number of
\* cases whose stored industry equals the leaf value, every parent's count is
\* the sum of its children's counts, no node has count 0, and the counts of
\* the top-level nodes add up to the number of cases that have a non-empty
\* stored industry.
C30_MappingTreeCounts ==
    MappingDone =>
        /\ TreeCountsRight(resp.industry_groups)
        /\ TopLevelTotal(resp.industry_groups) = Cardinality(CasesWithIndustry)

\* the first three parts hold on every corpus
C30_LeavesAndSums == MappingDone => TreeCountsRight(resp.industry_groups)

\* the total is right when every stored industry is a value of the mapping
C30_TotalOfMappedCorpus ==
    (MappingDone /\ \A i \in CasesWithIndustry :
                        cases.list[i].defendant_industry # "tobacco")
        => TopLevelTotal(resp.industry_groups) = Cardinality(CasesWithIndustry)

====
